---- MODULE Spec2Model ----
(***************************************************************************)
(* A model of the two generators of yunion.io/x/code-generator:            *)
(*   - model-api-gen: apiGen.generateFor, the field projector              *)
(*     (pkg/model-api-gen/generators/apigen.go);                           *)
(*   - swagger-gen: typeParser (the method convention matcher) and the     *)
(*     route / parameter / response factories                              *)
(*     (pkg/swagger-gen/generators/swagger.go and helper.go).              *)
(*                                                                         *)
(* Text.  A Go string is modelled as a sequence of fragments (TLA+         *)
(* strings); concatenation is \o.  Identifiers whose letters the code      *)
(* inspects (member names, method names) are spelled one letter per        *)
(* fragment.  A package path is the sequence of its "/"-separated          *)
(* segments.  A *types.Type is an id into the type universe TypeOf; the    *)
(* nil pointer is Nil.                                                     *)
(***************************************************************************)
EXTENDS Integers, Sequences, FiniteSets, TLC

VARIABLES
    \* ---- model-api-gen: one call of apiGen.generateFor(t, sw) ----
    members,             \* t.Members of the type being generated
    idx,                 \* position of the range loop over t.Members
    out,                 \* what the snippet writer received, in order
    status,              \* "running", "done" or "fatal" (klog.Fatalf exits)
    fatalAt,             \* the function whose klog.Fatalf ended the run
    needImportPackages,  \* apiGen.needImportPackages
    \* ---- swagger-gen: swaggerGen.generateCode(manType, modelType, sw) ----
    managerMethods,      \* manType.Methods
    modelMethods,        \* modelType.Methods
    pSingular,           \* typeParser.singular (the manager's Keyword())
    pPlural,             \* typeParser.plural (the manager's KeywordPlural())
    pc,                  \* the statement of generateCode to run next
    getM,                \* the local getM of generateCode: <<>> is nil
    iter,                \* the order the last range over t.Methods took
    sel,                 \* what the last call of getTypeMethods returned
    picked,              \* what the last call of getMethod returned
    emitted,             \* the blocks written by this run, in order
    run,                 \* 1 for the first run of the generator, 2 for a rerun
    firstRun,            \* the blocks the first run wrote
    \* ---- model-api-gen: one call of apiGen.collectTypes(pkgTypes) ----
    fields,              \* t.Members of every struct type: the member types
    pkgTypes,            \* the argument of collectTypes
    accepted,            \* the types with includeType(t) || g.isResourceModel(t)
    modelTypes,          \* apiGen.modelTypes
    modelDependTypes,    \* apiGen.modelDependTypes
    cidx,                \* position of the range loop over pkgTypes
    stack,               \* the activations of addDependTypes, innermost last
    cstatus,             \* "running", "done" or "overflow" (the goroutine stack)
    \* ---- models: the model-manager registry ----
    globalManagers,      \* the package variable: <<>> (nil) or <<map name -> manager>>
    registered,          \* the arguments of the RegisterModelManager calls so far
    lookedUp,            \* the last lookup made and what it returned
    \* ---- swagger-gen: swaggerGen.Filter(c, t), then GenerateType(c, t, w) ----
    ftype,               \* the type t
    swaggerModelTypes,   \* swaggerGen.modelTypes
    modelManagers,       \* swaggerGen.modelManagers: <<map t.String() -> manager type>>
    fpc,                 \* "filter", "accepted", "rejected", "generated" or "panic"
    fetched,             \* the calls of fetchTagIdx made so far and their outcomes
    fout                 \* what GenerateType wrote or handed to generateCode

apiVars == <<members, idx, out, status, fatalAt, needImportPackages>>

swVars == <<managerMethods, modelMethods, pSingular, pPlural, pc, getM, iter, sel,
            picked, emitted, run, firstRun>>

colVars == <<fields, pkgTypes, accepted, modelTypes, modelDependTypes, cidx, stack, cstatus>>

regVars == <<globalManagers, registered, lookedUp>>

fltVars == <<ftype, swaggerModelTypes, modelManagers, fpc, fetched, fout>>

vars == <<apiVars, swVars, colVars, regVars, fltVars>>

Nil == "nil"

\* The state of the generator that a specification does not run.
SwaggerIdle ==
    /\ managerMethods = {}
    /\ modelMethods = {}
    /\ pSingular = <<>>
    /\ pPlural = <<>>
    /\ pc = "idle"
    /\ getM = <<>>
    /\ iter = <<>>
    /\ sel = <<>>
    /\ picked = <<>>
    /\ emitted = <<>>
    /\ run = 0
    /\ firstRun = <<>>

ApiGenIdle ==
    /\ members = <<>>
    /\ idx = 0
    /\ out = <<>>
    /\ status = "idle"
    /\ fatalAt = "none"
    /\ needImportPackages = {}

CollectIdle ==
    /\ fields = <<>>
    /\ pkgTypes = <<>>
    /\ accepted = {}
    /\ modelTypes = {}
    /\ modelDependTypes = {}
    /\ cidx = 0
    /\ stack = <<>>
    /\ cstatus = "idle"

RegistryIdle ==
    /\ globalManagers = <<>>
    /\ registered = <<>>
    /\ lookedUp = <<>>

FilterIdle ==
    /\ ftype = <<>>
    /\ swaggerModelTypes = {}
    /\ modelManagers = <<>>
    /\ fpc = "idle"
    /\ fetched = <<>>
    /\ fout = <<>>

(***************************************************************************)
(* Bounds of the model.                                                    *)
(***************************************************************************)
MaxMembers == 3

MaxFields == 3

MaxDepth == 4

(***************************************************************************)
(* Text helpers.                                                           *)
(***************************************************************************)
\* The letters of identifiers, in ASCII order.
Chars ==
    << "A", "B", "C", "D", "E", "F", "G", "H", "I", "J", "K", "L", "M",
       "N", "O", "P", "Q", "R", "S", "T", "U", "V", "W", "X", "Y", "Z",
       "_",
       "a", "b", "c", "d", "e", "f", "g", "h", "i", "j", "k", "l", "m",
       "n", "o", "p", "q", "r", "s", "t", "u", "v", "w", "x", "y", "z" >>

Ord(c) == CHOOSE i \in 1..Len(Chars) : Chars[i] = c

isUpperChar(c) == \E i \in 1..26 : Chars[i] = c

isLowerChar(c) == \E i \in 28..53 : Chars[i] = c

toLower(c) == IF isUpperChar(c) THEN Chars[Ord(c) + 27] ELSE c

\* Go's string comparison (bytewise) on letter-spelled strings.
RECURSIVE StrLess(_, _)
StrLess(a, b) ==
    IF Len(b) = 0 THEN FALSE
    ELSE IF Len(a) = 0 THEN TRUE
    ELSE IF Head(a) = Head(b) THEN StrLess(Tail(a), Tail(b))
    ELSE Ord(Head(a)) < Ord(Head(b))

\* strings.Join
RECURSIVE Join(_, _)
Join(strs, sep) ==
    IF Len(strs) = 0 THEN <<>>
    ELSE IF Len(strs) = 1 THEN strs[1]
    ELSE strs[1] \o sep \o Join(Tail(strs), sep)

\* strings.HasPrefix
HasPrefix(s, prefix) ==
    /\ Len(s) >= Len(prefix)
    /\ SubSeq(s, 1, Len(prefix)) = prefix

\* strings.TrimPrefix
TrimPrefix(s, prefix) ==
    IF HasPrefix(s, prefix) THEN SubSeq(s, Len(prefix) + 1, Len(s)) ELSE s

\* strings.Contains on package paths, segment by segment.
Contains(s, sub) ==
    \E i \in 0..(Len(s) - Len(sub)) : SubSeq(s, i + 1, i + Len(sub)) = sub

\* filepath.Base of a package path
Base(path) == IF Len(path) = 0 THEN "." ELSE path[Len(path)]

\* utils.CamelSplitTokens of yunion.io/x/pkg/utils: the name is cut before
\* an upper-case letter that starts a run of capitals or is followed by a
\* lower-case letter, and every letter is lower-cased.
RECURSIVE CamelSplitFrom(_, _, _, _, _)
CamelSplitFrom(str, i, buf, upperCount, tokens) ==
    IF i > Len(str)
    THEN IF Len(buf) > 0 THEN Append(tokens, buf) ELSE tokens
    ELSE LET c == str[i]
             nextLower == i < Len(str) /\ isLowerChar(str[i + 1])
             split == isUpperChar(c) /\ (upperCount = 0 \/ nextLower)
             cnt == IF isUpperChar(c) THEN upperCount + 1 ELSE 0
         IN  IF split /\ Len(buf) > 0
             THEN CamelSplitFrom(str, i + 1, <<toLower(c)>>, cnt, Append(tokens, buf))
             ELSE CamelSplitFrom(str, i + 1, Append(buf, toLower(c)), cnt, tokens)

\* utils.CamelSplit(str, sep)
CamelSplit(str, sep) == Join(CamelSplitFrom(str, 1, <<>>, 0, <<>>), <<sep>>)

\* sets.String.List(): the elements in increasing order.
RECURSIVE SortedList(_)
SortedList(S) ==
    IF S = {} THEN <<>>
    ELSE LET m == CHOOSE x \in S : \A y \in S \ {x} : StrLess(x, y)
         IN  <<m>> \o SortedList(S \ {m})

Range(s) == {s[i] : i \in 1..Len(s)}

(***************************************************************************)
(* The type universe (k8s.io/gengo/types.Type): kind, Name.Name,           *)
(* Name.Package, Elem and Underlying of each type the inputs refer to.     *)
(***************************************************************************)
SourcePackage == <<"yunion.io", "x", "onecloud", "pkg", "compute", "models">>

CloudCommonDBPackage == <<"yunion.io", "x", "onecloud", "pkg", "cloudcommon", "db">>

CloudProviderPackage == <<"yunion.io", "x", "onecloud", "pkg", "cloudprovider">>

JsonutilsPackage == <<"yunion.io", "x", "jsonutils">>

OtherPackage == <<"yunion.io", "x", "onecloud", "pkg", "apis", "compute">>

SModelBase == "SModelBase"

T(kind, name, pkg, elem, underlying) ==
    [kind |-> kind, name |-> name, pkg |-> pkg, elem |-> elem, underlying |-> underlying]

TypeOf ==
    [ string        |-> T("Builtin", "string", <<>>, Nil, Nil),
      int           |-> T("Builtin", "int", <<>>, Nil, Nil),
      error         |-> T("Interface", "error", <<>>, Nil, Nil),
      SGuest        |-> T("Struct", "SGuest", SourcePackage, Nil, Nil),
      SModelBase    |-> T("Struct", SModelBase, CloudCommonDBPackage, Nil, Nil),
      SResourceBase |-> T("Struct", "SResourceBase", CloudCommonDBPackage, Nil, Nil),
      SGeo          |-> T("Struct", "SGeographicInfo", CloudProviderPackage, Nil, Nil),
      Details       |-> T("Struct", "ServerDetails", OtherPackage, Nil, Nil),
      JSONDict      |-> T("Struct", "JSONDict", JsonutilsPackage, Nil, Nil),
      JSONObject    |-> T("Interface", "JSONObject", JsonutilsPackage, Nil, Nil),
      Context       |-> T("Interface", "Context", <<"context">>, Nil, Nil),
      UserCred      |-> T("Interface", "TokenCredential", <<"yunion.io", "x", "onecloud", "pkg", "mcclient">>, Nil, Nil),
      Input         |-> T("Struct", "ServerInput", OtherPackage, Nil, Nil),
      PtrInput      |-> T("Pointer", "*compute.ServerInput", <<>>, "Input", Nil),
      SGuestManager |-> T("Struct", "SGuestManager", SourcePackage, Nil, Nil),
      SDiskManager  |-> T("Struct", "SDiskManager", SourcePackage, Nil, Nil),
      IDriver       |-> T("Interface", "IGuestDriver", SourcePackage, Nil, Nil),
      TriState      |-> T("Alias", "TriState", <<"yunion.io", "x", "pkg", "tristate">>, Nil, "string"),
      TriStateInt   |-> T("Alias", "TriState", SourcePackage, Nil, "TCount"),
      TStatus       |-> T("Alias", "TStatus", SourcePackage, Nil, "string"),
      TCount        |-> T("Alias", "TCount", SourcePackage, Nil, "int"),
      PtrSGuest     |-> T("Pointer", "*models.SGuest", <<>>, "SGuest", Nil),
      PtrDetails    |-> T("Pointer", "*compute.ServerDetails", <<>>, "Details", Nil),
      PtrJSONDict   |-> T("Pointer", "*jsonutils.JSONDict", <<>>, "JSONDict", Nil),
      PtrString     |-> T("Pointer", "*string", <<>>, "string", Nil),
      SliceString   |-> T("Slice", "[]string", <<>>, "string", Nil),
      SlicePtrGuest |-> T("Slice", "[]*models.SGuest", <<>>, "PtrSGuest", Nil),
      MapString     |-> T("Map", "map[string]string", <<>>, "string", Nil),
      SDisk         |-> T("Struct", "SDisk", SourcePackage, Nil, Nil),
      TGeo          |-> T("Alias", "TGeo", SourcePackage, Nil, "SGeo"),
      PtrSModelBase |-> T("Pointer", "*db.SModelBase", <<>>, "SModelBase", Nil) ]

TypeIds == DOMAIN TypeOf

\* types.Type.String(): the package-qualified name.
TypeString(t) ==
    IF Len(TypeOf[t].pkg) = 0 THEN <<TypeOf[t].name>>
    ELSE <<Join([i \in 1..Len(TypeOf[t].pkg) |-> <<TypeOf[t].pkg[i]>>], <<"/">>), ".", TypeOf[t].name>>

(***************************************************************************)
(* model-api-gen: apigen.go                                                *)
(***************************************************************************)
\* common.InSourcePackage(t, g.sourcePackage)
inSourcePackage(t) == TypeOf[t].pkg = SourcePackage

\* A variant of isModelBase that takes every type of the db package for the base.
isModelBaseByPackage(t) == TypeOf[t].pkg = CloudCommonDBPackage

isModelBase(t) == TypeOf[t].name = SModelBase

RECURSIVE underlyingType(_)
underlyingType(t) ==
    IF TypeOf[t].kind = "Alias" THEN underlyingType(TypeOf[t].underlying) ELSE t

\* defaultAPIsPkg(srcPkg): yunion.io/x/<project>/pkg/apis
defaultAPIsPkg(srcPkg) == <<"yunion.io", "x", srcPkg[3], "pkg", "apis">>

\* GetInputOutputPackageMap(apisPkg), as a set of <<key, value>> pairs.
GetInputOutputPackageMap(apisPkg) ==
    { <<CloudCommonDBPackage, apisPkg>>,
      <<CloudProviderPackage, apisPkg \o <<"cloudprovider">> >> }

NewMember(name) ==
    [name |-> name, jsonTags |-> <<>>, mType |-> <<>>, namer |-> "raw", embedded |-> FALSE]

MemberType(m, mType) == [m EXCEPT !.mType = mType]

MemberNamer(m, namer) == [m EXCEPT !.namer = namer]

MemberEmbedded(m) == [m EXCEPT !.embedded = TRUE]

AddTag(m, tags) ==
    [m EXCEPT !.jsonTags = SortedList(Range(tags) \cup Range(m.jsonTags))]

NoTag(m) == [m EXCEPT !.jsonTags = <<>>]

NewModelMember(name) == AddTag(NewMember(name), <<CamelSplit(name, "_")>>)

\* The raw-string quote of a Go struct tag.
BackQuote == "BACKQUOTE"

\* Member.Do: the line handed to the snippet writer, with its arguments.
MemberDo(m, args) ==
    LET typePart == IF m.mType # <<>> THEN m.mType ELSE <<"$.type|", m.namer, "$">>
        ret == IF m.embedded THEN typePart ELSE m.name \o <<" ">> \o typePart
        tagged == IF Len(m.jsonTags) # 0
                  THEN ret \o <<" ", BackQuote, "json:\"">> \o Join(m.jsonTags, <<",">>) \o <<"\"", BackQuote>>
                  ELSE ret
    IN  [m |-> m, text |-> tagged \o <<"\n">>, args |-> args]

TypeMap ==
    [ TriState |-> [Type |-> <<"*bool">>,
                    JSONTags |-> << <<"o", "m", "i", "t", "e", "m", "p", "t", "y">> >>] ]

doBuiltinMember(m) == MemberDo(NewModelMember(m.name), m.type)

\* A variant of doAlias that never consults TypeMap.
doAliasMemberNoTypeMap(member) ==
    MemberDo(NewModelMember(member.name), underlyingType(member.type))

doAliasMember(member) ==
    IF TypeOf[member.type].name \in DOMAIN TypeMap
    THEN LET ct == TypeMap[TypeOf[member.type].name]
         IN  MemberDo(MemberType(AddTag(NewModelMember(member.name), ct.JSONTags), ct.Type), Nil)
    ELSE MemberDo(NewModelMember(member.name), underlyingType(member.type))

doStructOutPkg(member) ==
    { p[2] : p \in { q \in GetInputOutputPackageMap(defaultAPIsPkg(SourcePackage)) :
                        q[1] = TypeOf[member.type].pkg } }

doStructMember(member) ==
    LET m0 == NewModelMember(member.name)
        m1 == IF member.embedded THEN NoTag(MemberEmbedded(m0)) ELSE m0
        m2 == IF inSourcePackage(member.type)
              THEN MemberNamer(m1, "public")
              ELSE IF doStructOutPkg(member) # {}
              THEN LET outPkg == CHOOSE p \in doStructOutPkg(member) : TRUE
                   IN  MemberType(m1, <<Base(outPkg), ".", TypeOf[member.type].name>>)
              ELSE m1
    IN  MemberDo(m2, member.type)

doInterfaceMember(m) == MemberDo(NewModelMember(m.name), m.type)

getPointerSourcePackageName(t) == <<"*", TypeOf[TypeOf[t].elem].name>>

doPointerMember(m) ==
    LET mem0 == NewModelMember(m.name)
        mem1 == IF inSourcePackage(TypeOf[m.type].elem)
                THEN MemberType(mem0, getPointerSourcePackageName(m.type))
                ELSE mem0
        mem2 == IF m.embedded THEN NoTag(MemberEmbedded(mem1)) ELSE mem1
    IN  MemberDo(mem2, m.type)

\* A variant of the switch that treats a slice like a builtin.
generateForHandlerSliceAsBuiltin(mt) ==
    CASE TypeOf[mt].kind \in {"Builtin", "Slice"} -> "doBuiltin"
      [] TypeOf[mt].kind = "Struct"    -> "doStruct"
      [] TypeOf[mt].kind = "Interface" -> "doInterface"
      [] TypeOf[mt].kind = "Alias"     -> "doAlias"
      [] TypeOf[mt].kind = "Pointer"   -> "doPointer"
      [] OTHER                         -> "unsupported"

\* The switch of generateFor: the function that handles a member type.
generateForHandler(mt) ==
    CASE TypeOf[mt].kind = "Builtin"   -> "doBuiltin"
      [] TypeOf[mt].kind = "Struct"    -> "doStruct"
      [] TypeOf[mt].kind = "Interface" -> "doInterface"
      [] TypeOf[mt].kind = "Alias"     -> "doAlias"
      [] TypeOf[mt].kind = "Pointer"   -> "doPointer"
      [] TypeOf[mt].kind = "Slice"     -> "doSlice"
      [] OTHER                         -> "unsupported"

\* types.Member values the generated types are made of.
M(name, embedded, type) == [name |-> name, embedded |-> embedded, type |-> type]

MemberUniverse ==
    { M(<<"S", "M", "o", "d", "e", "l", "B", "a", "s", "e">>, TRUE, "SModelBase"),
      M(<<"S", "R", "e", "s", "o", "u", "r", "c", "e", "B", "a", "s", "e">>, TRUE, "SResourceBase"),
      M(<<"N", "a", "m", "e">>, FALSE, "string"),
      M(<<"V", "c", "p", "u", "C", "o", "u", "n", "t">>, FALSE, "int"),
      M(<<"A", "u", "t", "o", "S", "t", "a", "r", "t">>, FALSE, "TriState"),
      M(<<"S", "h", "a", "r", "e", "d">>, FALSE, "TriStateInt"),
      M(<<"S", "t", "a", "t", "u", "s">>, FALSE, "TStatus"),
      M(<<"G", "u", "e", "s", "t">>, FALSE, "SGuest"),
      M(<<"G", "e", "o">>, FALSE, "SGeo"),
      M(<<"D", "e", "t", "a", "i", "l", "s">>, FALSE, "Details"),
      M(<<"D", "r", "i", "v", "e", "r">>, FALSE, "IDriver"),
      M(<<"I", "G", "u", "e", "s", "t", "D", "r", "i", "v", "e", "r">>, TRUE, "IDriver"),
      M(<<"P", "a", "r", "e", "n", "t">>, FALSE, "PtrSGuest"),
      M(<<"S", "G", "u", "e", "s", "t">>, TRUE, "PtrSGuest"),
      M(<<"E", "x", "t", "r", "a">>, FALSE, "PtrDetails"),
      M(<<"T", "a", "g", "s">>, FALSE, "SliceString"),
      M(<<"P", "e", "e", "r", "s">>, FALSE, "SlicePtrGuest"),
      M(<<"M", "e", "t", "a">>, FALSE, "MapString") }

\* The member lists of a struct: field names are distinct.
MemberLists ==
    UNION { { ms \in [1..n -> MemberUniverse] :
                \A i, j \in 1..n : i # j => ms[i].name # ms[j].name } : n \in 0..MaxMembers }

InitApiGen ==
    /\ members \in MemberLists
    /\ idx = 1
    /\ out = <<>>
    /\ status = "running"
    /\ fatalAt = "none"
    /\ needImportPackages = {}
    /\ SwaggerIdle
    /\ CollectIdle
    /\ RegistryIdle
    /\ FilterIdle

\* The loop of generateFor stands at a member that handler h takes.
AtMember(h) ==
    /\ status = "running"
    /\ idx <= Len(members)
    /\ ~isModelBase(members[idx].type)
    /\ generateForHandler(members[idx].type) = h

Emit(line) ==
    /\ out' = Append(out, line)
    /\ idx' = idx + 1
    /\ UNCHANGED <<members, status, fatalAt, swVars, colVars, regVars, fltVars>>

Fatal(where) ==
    /\ status' = "fatal"
    /\ fatalAt' = where
    /\ UNCHANGED <<members, idx, out, needImportPackages, swVars, colVars, regVars, fltVars>>

SkipModelBase ==
    /\ status = "running"
    /\ idx <= Len(members)
    /\ isModelBase(members[idx].type)
    /\ idx' = idx + 1
    /\ UNCHANGED <<members, out, status, fatalAt, needImportPackages, swVars, colVars, regVars, fltVars>>

DoBuiltin ==
    /\ AtMember("doBuiltin")
    /\ Emit(doBuiltinMember(members[idx]))
    /\ UNCHANGED needImportPackages

DoStruct ==
    /\ AtMember("doStruct")
    /\ Emit(doStructMember(members[idx]))
    /\ needImportPackages' =
          IF inSourcePackage(members[idx].type) THEN needImportPackages
          ELSE needImportPackages \cup doStructOutPkg(members[idx])

\* A variant of doInterface without the check of m.Embedded.
DoInterfaceUnchecked ==
    /\ AtMember("doInterface")
    /\ Emit(doInterfaceMember(members[idx]))
    /\ UNCHANGED needImportPackages

DoInterface ==
    /\ AtMember("doInterface")
    /\ IF members[idx].embedded
       THEN Fatal("doInterface")
       ELSE Emit(doInterfaceMember(members[idx])) /\ UNCHANGED needImportPackages

DoAlias ==
    /\ AtMember("doAlias")
    /\ Emit(doAliasMember(members[idx]))
    /\ UNCHANGED needImportPackages

DoPointer ==
    /\ AtMember("doPointer")
    /\ Emit(doPointerMember(members[idx]))
    /\ UNCHANGED needImportPackages

DoSlice ==
    /\ AtMember("doSlice")
    /\ Fatal("doSlice")

FatalUnsupported ==
    /\ AtMember("unsupported")
    /\ Fatal("generateFor")

ReturnGenerateFor ==
    /\ status = "running"
    /\ idx > Len(members)
    /\ status' = "done"
    /\ UNCHANGED <<members, idx, out, fatalAt, needImportPackages, swVars, colVars, regVars, fltVars>>

NextApiGen ==
    \/ SkipModelBase
    \/ DoBuiltin
    \/ DoStruct
    \/ DoInterface
    \/ DoAlias
    \/ DoPointer
    \/ DoSlice
    \/ FatalUnsupported
    \/ ReturnGenerateFor

SpecApiGen == InitApiGen /\ [][NextApiGen]_vars

(***************************************************************************)
(* Properties of model-api-gen (checked under SpecApiGen).                 *)
(***************************************************************************)
SupportedKinds == {"Builtin", "Struct", "Interface", "Alias", "Pointer"}

IsSentinel(m) == TypeOf[m.type].name = "SModelBase"

\* The members of the input that are not the SModelBase sentinel, in order.
Projectable == SelectSeq(members, LAMBDA m : ~IsSentinel(m))

AllSupportedKinds == \A i \in 1..Len(members) : TypeOf[members[i].type].kind \in SupportedKinds

NoEmbeddedInterface ==
    \A i \in 1..Len(members) :
        ~(TypeOf[members[i].type].kind = "Interface" /\ members[i].embedded)

OneFieldPerMemberInOrder ==
    /\ Len(out) = Len(Projectable)
    /\ \A k \in 1..Len(out) : out[k].m.name = Projectable[k].name

\* C2 (as stated): for a type whose members are all of supported kinds,
\* generateFor ends with exactly one field line per member that is not the
\* SModelBase sentinel, in source member order.
C2_Original ==
    (AllSupportedKinds /\ status # "running") => (status = "done" /\ OneFieldPerMemberInOrder)

\* C2 (amended): for a type whose members are all of supported kinds and
\* none of which is an embedded interface, generateFor never aborts and ends
\* with exactly one field line per member that is not the SModelBase
\* sentinel, in source member order.
C2_FieldPerMember ==
    (AllSupportedKinds /\ NoEmbeddedInterface /\ status # "running")
        => (status = "done" /\ OneFieldPerMemberInOrder)

C2_Witness ==
    /\ status = "done"
    /\ Len(members) = 3
    /\ Len(out) = 2
    /\ \E i \in 1..Len(members) : IsSentinel(members[i])
    /\ \E k \in 1..Len(out) : out[k].m.embedded

HasSlice == \E i \in 1..Len(members) : TypeOf[members[i].type].kind = "Slice"

FirstSlice == CHOOSE i \in 1..Len(members) :
                 /\ TypeOf[members[i].type].kind = "Slice"
                 /\ \A j \in 1..(i - 1) : TypeOf[members[j].type].kind # "Slice"

\* C3: a type with a member of kind Slice never finishes generation: the run
\* never gets past the first slice member, it is doSlice that aborts there,
\* and no field is emitted for the slice member or a member after it.
C3_SliceAborts ==
    HasSlice =>
        /\ status # "done"
        /\ idx <= FirstSlice
        /\ (status = "fatal" /\ idx = FirstSlice) => fatalAt = "doSlice"
        /\ \A k \in 1..Len(out) :
              \E j \in 1..(FirstSlice - 1) : members[j].name = out[k].m.name

C3_Witness ==
    /\ status = "fatal"
    /\ fatalAt = "doSlice"
    /\ Len(out) = 1
    /\ idx = 2
    /\ Len(members) = 3
    /\ TypeOf[members[2].type].elem = "PtrSGuest"

IsTriState(m) == TypeOf[m.type].kind = "Alias" /\ TypeOf[m.type].name = "TriState"

OmitEmpty == <<"o", "m", "i", "t", "e", "m", "p", "t", "y">>

\* C7: the field emitted for an alias member named TriState has the type
\* expression *bool and a json tag containing omitempty, whatever the
\* alias's underlying type is; the underlying type is not handed to the
\* snippet writer.
C7_TriState ==
    \A k \in 1..Len(out) :
        IsTriState(Projectable[k]) =>
            /\ out[k].m.mType = <<"*bool">>
            /\ OmitEmpty \in Range(out[k].m.jsonTags)
            /\ out[k].args = Nil
            /\ out[k].text[Len(Projectable[k].name) + 2] = "*bool"
            /\ \E i \in 1..Len(out[k].text) : out[k].text[i] = "json:\""
            /\ Contains(out[k].text, OmitEmpty)

C7_Witness ==
    /\ \E k \in 1..Len(out) : Projectable[k].type = "TriState"
    /\ \E k \in 1..Len(out) : Projectable[k].type = "TriStateInt"

(***************************************************************************)
(* swagger-gen: the method convention matcher (swagger.go).                *)
(***************************************************************************)
tagIgnoreName == "onecloud:swagger-gen-ignore"

\* A comment line: plain text, or a tag line "+key=value".
Doc(text) == [marker |-> FALSE, key |-> text, value |-> ""]

Tag(key, value) == [marker |-> TRUE, key |-> key, value |-> value]

\* The text of a comment line, as CommentLines holds it.
LineText(l) ==
    IF ~l.marker THEN <<l.key>>
    ELSE IF l.value = "" THEN <<"+", l.key>>
    ELSE <<"+", l.key, "=", l.value>>

\* types.ExtractCommentTags("+", comments)[tagName]
extractTagByName(comments, tagName) ==
    LET tagged == SelectSeq(comments, LAMBDA l : l.marker /\ l.key = tagName)
    IN  [i \in 1..Len(tagged) |-> tagged[i].value]

extractIgnoreTag(comments) == extractTagByName(comments, tagIgnoreName)

\* A variant of includeIgnoreTag that never sees the annotation.
includeIgnoreTagNever(t) == FALSE

includeIgnoreTag(t) == Len(extractIgnoreTag(t.comments)) # 0

\* model or model manager func keywords
Create == <<"V", "a", "l", "i", "d", "a", "t", "e", "C", "r", "e", "a", "t", "e", "D", "a", "t", "a">>

List == <<"L", "i", "s", "t", "I", "t", "e", "m", "F", "i", "l", "t", "e", "r">>

Get == <<"G", "e", "t", "E", "x", "t", "r", "a", "D", "e", "t", "a", "i", "l", "s">>

GetSpec == <<"G", "e", "t", "D", "e", "t", "a", "i", "l", "s">>

Perform == <<"P", "e", "r", "f", "o", "r", "m">>

Update == <<"V", "a", "l", "i", "d", "a", "t", "e", "U", "p", "d", "a", "t", "e", "D", "a", "t", "a">>

Delete == <<"C", "u", "s", "t", "o", "m", "i", "z", "e", "D", "e", "l", "e", "t", "e">>

\* A method of a type's method table: its name (the key of t.Methods) and
\* the signature and comment lines of its func type.
Func(name, params, results, comments) ==
    [name |-> name, params |-> params, results |-> results, comments |-> comments]

NewMethod(receiver, name, method, singular, plural) ==
    [receiver |-> receiver, name |-> name, method |-> method,
     resSingular |-> singular, resPlural |-> plural]

Params(m, i) == m.method.params[i + 1]

Resutls(m, i) == m.method.results[i + 1]

getValidType(t) ==
    IF t = Nil THEN Nil
    ELSE IF TypeOf[t].kind = "Pointer" THEN TypeOf[t].elem
    ELSE IF TypeOf[t].kind = "Struct" THEN t
    ELSE Nil

GetValidType(t) ==
    LET v == getValidType(t)
    IN  IF v = Nil THEN Nil
        ELSE IF Contains(TypeOf[v].pkg, JsonutilsPackage) THEN Nil
        ELSE v

\* isValidType(t) returns no error
isValidType(t) ==
    /\ t # Nil
    /\ GetValidType(t) # Nil
    /\ TypeOf[GetValidType(t)].name # "struct{}"

\* validInputOutput(input, output) returns no error
validInputOutput(input, output) == isValidType(input) /\ isValidType(output)

\* The arity templates: the closures createM ... getSpecM hand to getMethod(s).
\* A variant of createM's template that accepts 5 parameters or more.
createPredAtLeastFive(m) == Len(m.method.params) >= 5 /\ Len(m.method.results) = 2

createPred(m) == ~(Len(m.method.params) # 5 \/ Len(m.method.results) # 2)

listPred(m) == ~(Len(m.method.params) # 4 \/ Len(m.method.results) # 2)

getPred(m) ==
    (Len(m.method.params) = 3 \/ Len(m.method.params) = 4) /\ Len(m.method.results) = 2

updatePred(m) == ~(Len(m.method.params) # 4 \/ Len(m.method.results) # 2)

deletePred(m) == ~(Len(m.method.params) # 4 \/ Len(m.method.results) # 1)

performActionPred(m) == ~(Len(m.method.params) # 4 \/ Len(m.method.results) # 2)

\* A variant of getSpecM's template in which an invalid output type rejects
\* the method instead of logging a warning.
getSpecPredStrict(m) ==
    /\ ~(Len(m.method.params) # 3 \/ Len(m.method.results) # 2)
    /\ isValidType(m.method.results[1])

getSpecPred(m) == ~(Len(m.method.params) # 3 \/ Len(m.method.results) # 2)

\* The call predicateF(mWrap): a closure is named after the function that
\* builds it, and Nil is the nil closure.
callPredicate(predicateF, m) ==
    CASE predicateF = Nil -> TRUE
      [] predicateF = "createM" -> createPred(m)
      [] predicateF = "listM" -> listPred(m)
      [] predicateF = "getM" -> getPred(m)
      [] predicateF = "updateM" -> updatePred(m)
      [] predicateF = "deleteM" -> deletePred(m)
      [] predicateF = "performActionM" -> performActionPred(m)
      [] predicateF = "getSpecM" -> getSpecPred(m)

\* getTypeMethods, with the order in which range yields the entries of
\* the map t.Methods as a parameter.
getTypeMethods(order, funcPrefixKeyword, keyword, keywordPlural, t, predicateF) ==
    LET mWrap(e) == NewMethod(t, e.name, e, keyword, keywordPlural)
        kept == SelectSeq(order, LAMBDA e :
                    /\ HasPrefix(e.name, funcPrefixKeyword)
                    /\ ~includeIgnoreTag(e)
                    /\ callPredicate(predicateF, mWrap(e)))
    IN  [i \in 1..Len(kept) |-> mWrap(kept[i])]

\* A variant of getMethod that returns the last match.
getMethodLast(ms) == IF Len(ms) = 0 THEN <<>> ELSE <<ms[Len(ms)]>>

\* typeParser.getMethod applied to the result ms of getMethods: a *Method is
\* the empty sequence (nil) or a sequence of one Method.
getMethod(ms) == IF Len(ms) = 0 THEN <<>> ELSE <<ms[1]>>

(***************************************************************************)
(* swagger-gen: routes, parameters and responses (helper.go).              *)
(***************************************************************************)
\* The pointer-to-struct shape check of the factories.
isStructPointer(t) ==
    /\ t # Nil
    /\ TypeOf[t].kind = "Pointer"
    /\ TypeOf[TypeOf[t].elem].kind = "Struct"

privateName(structName, methodName) ==
    IF structName = <<>> THEN methodName ELSE structName \o <<"_">> \o methodName

\* ---- parameters ----
newParameter(singular, plural, id) ==
    [singular |-> singular, plural |-> plural, operationId |-> id, withId |-> FALSE,
     query |-> Nil, body |-> Nil, errorMsgs |-> <<>>]

factoryNewParameter(method) ==
    newParameter(method.resSingular, method.resPlural,
                 privateName(method.resSingular, method.name))

parameterCreate(method) ==
    LET query == Params(method, 3)
        body == Params(method, 4)
        p == factoryNewParameter(method)
        p1 == IF isStructPointer(body)
              THEN [p EXCEPT !.body = body]
              ELSE [p EXCEPT !.errorMsgs =
                       Append(@, <<"unsupport body type ">> \o TypeString(body))]
    IN  [p1 EXCEPT !.query = query]

\* A variant of parameterFactory.List that records no diagnostic.
parameterListSilent(method) ==
    LET query == Params(method, 3)
        p == factoryNewParameter(method)
    IN  IF isStructPointer(query) THEN [p EXCEPT !.query = TypeOf[query].elem] ELSE p

parameterList(method) ==
    LET query == Params(method, 3)
        p == factoryNewParameter(method)
    IN  IF isStructPointer(query)
        THEN [p EXCEPT !.query = TypeOf[query].elem]
        ELSE [p EXCEPT !.errorMsgs =
                 Append(@, <<"unsupport query type ">> \o TypeString(query))]

parameterGet(method) ==
    LET query == Params(method, 2)
        p == factoryNewParameter(method)
        p1 == IF isStructPointer(query) THEN [p EXCEPT !.query = TypeOf[query].elem] ELSE p
    IN  [p1 EXCEPT !.withId = TRUE]

parameterUpdate(method) ==
    LET query == Params(method, 2)
        body == Params(method, 3)
        p == factoryNewParameter(method)
        p1 == IF isStructPointer(body)
              THEN [p EXCEPT !.body = body]
              ELSE [p EXCEPT !.errorMsgs =
                       Append(@, <<"unsupport body type ">> \o TypeString(body))]
    IN  [p1 EXCEPT !.query = query, !.withId = TRUE]

parameterDelete(method) ==
    LET query == Params(method, 2)
        body == Params(method, 3)
        p == factoryNewParameter(method)
        p1 == IF isStructPointer(query) THEN [p EXCEPT !.query = query] ELSE p
        p2 == IF isStructPointer(body) THEN [p1 EXCEPT !.body = body] ELSE p1
    IN  [p2 EXCEPT !.withId = TRUE]

parameterGetSpec(method) ==
    LET query == Params(method, 2)
        p == factoryNewParameter(method)
        p1 == IF isStructPointer(query) THEN [p EXCEPT !.query = TypeOf[query].elem] ELSE p
    IN  [p1 EXCEPT !.withId = TRUE]

parameterPerformAction(method) ==
    LET query == Params(method, 2)
        body == Params(method, 3)
        p == factoryNewParameter(method)
        p1 == IF isStructPointer(body) THEN [p EXCEPT !.body = body] ELSE p
    IN  [p1 EXCEPT !.query = query, !.withId = TRUE]

\* ---- responses ----
factoryNewResponse(fmethod) ==
    [output |-> Nil,
     id |-> privateName(fmethod.resSingular, fmethod.name) \o <<"Output">>,
     bodyKey |-> <<>>, isList |-> FALSE, errorMsgs |-> <<>>]

resultByMethod(fmethod, method, resultIdx, bodyKey, ignoreErr) ==
    LET r == factoryNewResponse(fmethod)
        outT == Resutls(method, resultIdx)
        r1 == IF isStructPointer(outT) THEN [r EXCEPT !.output = outT]
              ELSE IF ~ignoreErr
              THEN [r EXCEPT !.errorMsgs = Append(@, <<"unsupport type ">> \o TypeString(outT))]
              ELSE r
    IN  [r1 EXCEPT !.bodyKey = IF bodyKey = <<>> THEN fmethod.resPlural ELSE bodyKey]

ResultByMethod(fmethod, method, resultIdx, bodyKey) ==
    resultByMethod(fmethod, method, resultIdx, bodyKey, FALSE)

FirstSingularResult(fmethod) == ResultByMethod(fmethod, fmethod, 0, fmethod.resSingular)

FirstSingularResultNoError(fmethod) ==
    resultByMethod(fmethod, fmethod, 0, fmethod.resSingular, TRUE)

\* A variant of ResultByGetMethod that reads the matched method's own results.
ResultByOwnMethod(fmethod, getMethodM) ==
    ResultByMethod(fmethod, fmethod, 0, fmethod.resSingular)

ResultByGetMethod(fmethod, getMethodM) ==
    ResultByMethod(fmethod, getMethodM, 0, fmethod.resSingular)

\* A variant of ListResult that forgets to mark the response as a list.
ListResultNotList(fmethod, getMethodM) ==
    ResultByMethod(fmethod, getMethodM, 0, fmethod.resPlural)

ListResult(fmethod, getMethodM) ==
    [ResultByMethod(fmethod, getMethodM, 0, fmethod.resPlural) EXCEPT !.isList = TRUE]

\* ---- routes ----
apiAction(method, trimPrefix) == CamelSplit(TrimPrefix(method.name, trimPrefix), "-")

\* A variant of reviseDescription that leaves the description as it is.
reviseDescriptionNever(r) == r

reviseDescription(r) ==
    IF r.summary # <<>> /\ Len(r.description) = 0
    THEN [r EXCEPT !.description = Append(@, r.summary)]
    ELSE r

newRoute(method, action, input, output) ==
    LET commentLines == [i \in 1..Len(method.method.comments) |->
                            LineText(method.method.comments[i])]
        hasErr == Len(input.errorMsgs) # 0 \/ Len(output.errorMsgs) # 0
        summary == IF hasErr THEN <<"input or output error exists">>
                   ELSE IF Len(commentLines) > 0 THEN commentLines[1]
                   ELSE <<>>
        d1 == IF Len(input.errorMsgs) # 0
              THEN << <<"input error: ">> \o Join(input.errorMsgs, <<",">>) >>
              ELSE <<>>
        d2 == IF Len(output.errorMsgs) # 0
              THEN Append(d1, <<"output error: ">> \o Join(output.errorMsgs, <<",">>))
              ELSE d1
        d3 == IF Len(commentLines) > 1
              THEN d2 \o SubSeq(commentLines, 2, Len(commentLines))
              ELSE d2
    IN  reviseDescription(
            [action |-> action, path |-> <<>>, parameter |-> input,
             tags |-> <<method.resSingular>>, summary |-> summary,
             description |-> d3, response |-> {<<200, output>>}])

routeCreate(method, input, output) ==
    [newRoute(method, "POST", input, output) EXCEPT !.path = <<"/">> \o method.resPlural]

routeList(method, input, output) ==
    [newRoute(method, "GET", input, output) EXCEPT !.path = <<"/">> \o method.resPlural]

routeGet(method, input, output) ==
    [newRoute(method, "GET", input, output) EXCEPT
        !.path = <<"/">> \o method.resPlural \o <<"/{id}">>]

\* A variant of routeFactory.Update that builds the collection path.
routeUpdateNoId(method, input, output) ==
    [newRoute(method, "PUT", input, output) EXCEPT !.path = <<"/">> \o method.resPlural]

routeUpdate(method, input, output) ==
    [newRoute(method, "PUT", input, output) EXCEPT
        !.path = <<"/">> \o method.resPlural \o <<"/{id}">>]

routeDelete(method, input, output) ==
    [newRoute(method, "DELETE", input, output) EXCEPT
        !.path = <<"/">> \o method.resPlural \o <<"/{id}">>]

routeGetSpec(method, input, output) ==
    [newRoute(method, "GET", input, output) EXCEPT
        !.path = <<"/">> \o method.resPlural \o <<"/{id}/">> \o apiAction(method, GetSpec)]

routePerformAction(method, input, output) ==
    [newRoute(method, "POST", input, output) EXCEPT
        !.path = <<"/">> \o method.resPlural \o <<"/{id}/">> \o apiAction(method, Perform)]

\* ---- what the snippet writer receives ----
Sw(text, args) == [text |-> text, args |-> args]

swLine(l) == Sw(<<"// ">> \o l \o <<"\n">>, Nil)

swEmptyLine == Sw(<<"//\n">>, Nil)

routeDo(r) ==
    LET resp == CHOOSE cr \in r.response : TRUE    \* the map has the one key 200
        head == << Sw(<<"// swagger:route ", r.action, " ">> \o r.path \o <<" ">>
                      \o Join(r.tags, <<" ">>) \o <<" ">> \o r.parameter.operationId
                      \o <<"\n">>, Nil) >>
        sum == IF Len(r.summary) # 0 THEN <<swEmptyLine, swLine(r.summary)>> ELSE <<>>
        desc == IF Len(r.description) # 0
                THEN <<swEmptyLine>> \o [i \in 1..Len(r.description) |-> swLine(r.description[i])]
                ELSE <<>>
    IN  head \o sum \o desc
        \o << swEmptyLine, swLine(<<"responses:">>),
              swLine(<<"200", ": ">> \o resp[2].id), Sw(<<"\n">>, Nil) >>

parameterDo(r) ==
    LET query == GetValidType(r.query)
        body == GetValidType(r.body)
        idPart == IF r.withId
                  THEN << swLine(<<"The Id or Name of ">> \o r.singular),
                          swLine(<<"in:path">>), swLine(<<"required:true">>),
                          Sw(<<"Id string ", BackQuote, "json:\"id\"", BackQuote, "\n">>, Nil) >>
                  ELSE <<>>
        queryPart == IF query # Nil THEN << Sw(<<"$.type|raw$\n">>, query) >> ELSE <<>>
        bodyPart == IF r.body = Nil THEN <<>>
                    ELSE IF r.singular # <<>>
                    THEN << Sw(<<"// in:body\n">>, Nil), Sw(<<"Body struct {">>, Nil),
                            Sw(<<"Input $.type|raw$ ", BackQuote, "json:\"">> \o r.singular
                               \o <<"\"", BackQuote, "\n">>, body),
                            Sw(<<"} ", BackQuote, "json:\"body\"", BackQuote>>, Nil) >>
                    ELSE << Sw(<<"// in:body\n">>, Nil),
                            Sw(<<"Body $.type|raw$ ", BackQuote, "json:\"body\"", BackQuote>>, body) >>
    IN  << swLine(<<"swagger:parameters ">> \o r.operationId),
           Sw(<<"type ">> \o r.operationId \o <<" struct {\n">>, Nil) >>
        \o idPart \o queryPart \o bodyPart \o << Sw(<<"}\n">>, Nil) >>

bodyStruct(r, output) ==
    << Sw(<<"Body struct {\n">>, Nil) >>
    \o (IF r.isList
        THEN << Sw(<<"Output []$.type|raw$ ", BackQuote, "json:\"">> \o r.bodyKey
                   \o <<"\"", BackQuote, "\n">>, output),
                Sw(<<"Limit int ", BackQuote, "json:\"limit\"", BackQuote, "\n">>, Nil),
                Sw(<<"Total int ", BackQuote, "json:\"total\"", BackQuote, "\n">>, Nil),
                Sw(<<"Offset int ", BackQuote, "json:\"offset\"", BackQuote, "\n">>, Nil) >>
        ELSE << Sw(<<"Output $.type|raw$ ", BackQuote, "json:\"">> \o r.bodyKey
                   \o <<"\"", BackQuote, "\n">>, output) >>)
    \o << Sw(<<"}\n">>, Nil) >>

responseDo(r) ==
    LET output == GetValidType(r.output)
        bodyPart == IF output = Nil THEN <<>>
                    ELSE IF r.bodyKey # <<>>
                    THEN <<swLine(<<"in:body">>)>> \o bodyStruct(r, output)
                    ELSE <<swLine(<<"in:body">>), Sw(<<"$.type|raw$">>, output)>>
    IN  << Sw(<<"// swagger:response ">> \o r.id \o <<"\n">>, Nil),
           Sw(<<"type ">> \o r.id \o <<" struct {\n">>, Nil) >>
        \o bodyPart \o << Sw(<<"}\n">>, Nil) >>

\* commenter.Do, with the generate function and the method it was built for.
commenterDo(by, method, route, parameter, response) ==
    [by |-> by, method |-> method, route |-> route, parameter |-> parameter,
     response |-> response,
     text |-> routeDo(route) \o parameterDo(parameter) \o responseDo(response)]

\* ---- the generate functions: the blocks each one writes ----
generateCreate(createMethod, getMethodM) ==
    IF createMethod = <<>> \/ getMethodM = <<>> THEN <<>>
    ELSE LET param == parameterCreate(createMethod[1])
             resp == ResultByGetMethod(createMethod[1], getMethodM[1])
         IN  << commenterDo("generateCreate", createMethod[1],
                            routeCreate(createMethod[1], param, resp), param, resp) >>

generateList(listMethod, getMethodM) ==
    IF listMethod = <<>> \/ getMethodM = <<>> THEN <<>>
    ELSE LET param == parameterList(listMethod[1])
             resp == ListResult(listMethod[1], getMethodM[1])
         IN  << commenterDo("generateList", listMethod[1],
                            routeList(listMethod[1], param, resp), param, resp) >>

generateGet(method) ==
    IF method = <<>> THEN <<>>
    ELSE LET param == parameterGet(method[1])
             resp == FirstSingularResult(method[1])
         IN  << commenterDo("generateGet", method[1],
                            routeGet(method[1], param, resp), param, resp) >>

generateUpdate(method, getMethodM) ==
    IF method = <<>> \/ getMethodM = <<>> THEN <<>>
    ELSE LET param == parameterUpdate(method[1])
             resp == ResultByGetMethod(method[1], getMethodM[1])
         IN  << commenterDo("generateUpdate", method[1],
                            routeUpdate(method[1], param, resp), param, resp) >>

\* A variant of generateDelete that does not ask for the Get method.
generateDeleteUnpaired(method, getMethodM) ==
    IF method = <<>> THEN <<>>
    ELSE LET param == parameterDelete(method[1])
             resp == FirstSingularResult(method[1])
         IN  << commenterDo("generateDelete", method[1],
                            routeDelete(method[1], param, resp), param, resp) >>

generateDelete(method, getMethodM) ==
    IF method = <<>> \/ getMethodM = <<>> THEN <<>>
    ELSE LET param == parameterDelete(method[1])
             resp == ResultByGetMethod(method[1], getMethodM[1])
         IN  << commenterDo("generateDelete", method[1],
                            routeDelete(method[1], param, resp), param, resp) >>

generateGetSpec(method) ==
    LET param == parameterGetSpec(method)
        resp == FirstSingularResult(method)
    IN  commenterDo("generateGetSpec", method, routeGetSpec(method, param, resp), param, resp)

generatePerformAction(method) ==
    LET param == parameterPerformAction(method)
        resp == FirstSingularResultNoError(method)
    IN  commenterDo("generatePerformAction", method,
                    routePerformAction(method, param, resp), param, resp)

\* applyGenerateFunc(generateGetSpec, ...): one block per method, in order.
applyGenerateGetSpec(ms) == [i \in 1..Len(ms) |-> generateGetSpec(ms[i])]

applyGeneratePerformAction(ms) == [i \in 1..Len(ms) |-> generatePerformAction(ms[i])]

(***************************************************************************)
(* The inputs of swagger-gen: the method tables of a model type and of its *)
(* manager type, and the manager's keywords.                               *)
(***************************************************************************)
MaxMethods == 2

IgnoreTag == <<Tag(tagIgnoreName, "")>>

ManagerMethodUniverse ==
    { Func(<<"V", "a", "l", "i", "d", "a", "t", "e", "C", "r", "e", "a", "t", "e", "D", "a", "t", "a">>, <<"Context", "UserCred", "UserCred", "JSONObject", "PtrInput">>, <<"PtrInput", "error">>, <<Doc("Validate the data of a new server"), Doc("It checks the name")>>),
      Func(<<"V", "a", "l", "i", "d", "a", "t", "e", "C", "r", "e", "a", "t", "e", "D", "a", "t", "a">>, <<"Context", "UserCred", "JSONObject", "PtrInput">>, <<"PtrInput", "error">>, <<>>),
      Func(<<"V", "a", "l", "i", "d", "a", "t", "e", "C", "r", "e", "a", "t", "e", "D", "a", "t", "a">>, <<"Context", "UserCred", "UserCred", "JSONObject", "PtrInput">>, <<"PtrInput">>, <<>>),
      Func(<<"V", "a", "l", "i", "d", "a", "t", "e", "C", "r", "e", "a", "t", "e", "D", "a", "t", "a">>, <<"Context", "UserCred", "UserCred", "JSONObject", "PtrInput">>, <<"PtrInput", "error">>, IgnoreTag),
      Func(<<"V", "a", "l", "i", "d", "a", "t", "e", "C", "r", "e", "a", "t", "e", "D", "a", "t", "a">>, <<"Context", "UserCred", "UserCred", "JSONObject", "JSONObject">>, <<"PtrInput", "error">>, <<>>),
      Func(<<"V", "a", "l", "i", "d", "a", "t", "e", "C", "r", "e", "a", "t", "e", "D", "a", "t", "a", "E", "x">>, <<"Context", "UserCred", "UserCred", "JSONObject", "PtrInput", "string">>, <<"PtrInput", "error">>, <<>>),
      Func(<<"L", "i", "s", "t", "I", "t", "e", "m", "F", "i", "l", "t", "e", "r">>, <<"Context", "PtrInput", "UserCred", "PtrInput">>, <<"PtrInput", "error">>, <<Doc("List servers")>>),
      Func(<<"L", "i", "s", "t", "I", "t", "e", "m", "F", "i", "l", "t", "e", "r">>, <<"Context", "PtrInput", "UserCred", "JSONObject">>, <<"PtrInput", "error">>, <<>>),
      Func(<<"L", "i", "s", "t", "I", "t", "e", "m", "F", "i", "l", "t", "e", "r">>, <<"Context", "PtrInput", "UserCred">>, <<"PtrInput", "error">>, <<>>) }

ModelMethodUniverse ==
    { Func(<<"G", "e", "t", "E", "x", "t", "r", "a", "D", "e", "t", "a", "i", "l", "s">>, <<"Context", "UserCred", "PtrInput">>, <<"PtrDetails", "error">>, <<Doc("Details of a server")>>),
      Func(<<"G", "e", "t", "E", "x", "t", "r", "a", "D", "e", "t", "a", "i", "l", "s">>, <<"Context", "UserCred", "JSONObject", "PtrJSONDict">>, <<"PtrJSONDict", "error">>, <<>>),
      Func(<<"G", "e", "t", "E", "x", "t", "r", "a", "D", "e", "t", "a", "i", "l", "s">>, <<"Context", "UserCred", "PtrInput">>, <<"Details", "error">>, <<>>),
      Func(<<"G", "e", "t", "E", "x", "t", "r", "a", "D", "e", "t", "a", "i", "l", "s">>, <<"Context", "UserCred", "PtrInput">>, <<"PtrDetails", "error">>, IgnoreTag),
      Func(<<"G", "e", "t", "E", "x", "t", "r", "a", "D", "e", "t", "a", "i", "l", "s", "H", "e", "a", "d", "e", "r", "s">>, <<"Context", "UserCred", "JSONObject">>, <<"PtrInput", "error">>, <<>>),
      Func(<<"V", "a", "l", "i", "d", "a", "t", "e", "U", "p", "d", "a", "t", "e", "D", "a", "t", "a">>, <<"Context", "UserCred", "JSONObject", "PtrInput">>, <<"PtrInput", "error">>, <<Doc("Update a server")>>),
      Func(<<"V", "a", "l", "i", "d", "a", "t", "e", "U", "p", "d", "a", "t", "e", "D", "a", "t", "a">>, <<"Context", "UserCred", "UserCred", "JSONObject", "PtrInput">>, <<"PtrInput", "error">>, <<>>),
      Func(<<"V", "a", "l", "i", "d", "a", "t", "e", "U", "p", "d", "a", "t", "e", "D", "a", "t", "a">>, <<"Context", "UserCred", "JSONObject", "JSONObject">>, <<"PtrInput", "error">>, <<Doc("Update a server"), Doc("The body is free form")>>),
      Func(<<"C", "u", "s", "t", "o", "m", "i", "z", "e", "D", "e", "l", "e", "t", "e">>, <<"Context", "UserCred", "JSONObject", "JSONObject">>, <<"error">>, <<>>),
      Func(<<"G", "e", "t", "D", "e", "t", "a", "i", "l", "s", "V", "n", "c">>, <<"Context", "UserCred", "PtrInput">>, <<"PtrDetails", "error">>, <<Doc("Vnc information"), Doc("of a running server")>>),
      Func(<<"G", "e", "t", "D", "e", "t", "a", "i", "l", "s", "S", "t", "a", "t", "u", "s">>, <<"Context", "UserCred", "JSONObject">>, <<"JSONObject", "error">>, <<>>),
      Func(<<"G", "e", "t", "D", "e", "t", "a", "i", "l", "s", "V", "n", "c">>, <<"Context", "UserCred", "PtrInput">>, <<"PtrDetails", "error">>, IgnoreTag),
      Func(<<"P", "e", "r", "f", "o", "r", "m", "R", "e", "b", "o", "o", "t">>, <<"Context", "UserCred", "JSONObject", "PtrInput">>, <<"PtrDetails", "error">>, <<Doc("Reboot a server")>>),
      Func(<<"P", "e", "r", "f", "o", "r", "m", "C", "h", "a", "n", "g", "e", "O", "w", "n", "e", "r">>, <<"Context", "UserCred", "JSONObject", "JSONObject">>, <<"JSONObject", "error">>, <<>>),
      Func(<<"P", "e", "r", "f", "o", "r", "m", "R", "e", "b", "o", "o", "t">>, <<"Context", "UserCred", "JSONObject", "PtrInput">>, <<"PtrDetails", "error">>, IgnoreTag),
      Func(<<"P", "e", "r", "f", "o", "r", "m", "R", "e", "b", "o", "o", "t">>, <<"Context", "UserCred", "PtrInput">>, <<"PtrDetails", "error">>, <<>>) }

\* The manager's Keyword() and KeywordPlural().
KeywordUniverse ==
    { <<<<"server">>, <<"servers">>>>, <<<<"disk">>, <<"disks">>>>, << <<>>, <<>> >> }

\* A method table is a map: its names are distinct.
IsMethodTable(S) == \A a, b \in S : a.name = b.name => a = b

SubsetsUpTo(U, n) == UNION { { {f[i] : i \in 1..k} : f \in [1..k -> U] } : k \in 0..n }

MethodTables ==
    { tb \in { [manager |-> a, model |-> b] :
                 a \in SubsetsUpTo(ManagerMethodUniverse, MaxMethods),
                 b \in SubsetsUpTo(ModelMethodUniverse, MaxMethods) } :
        /\ Cardinality(tb.manager) + Cardinality(tb.model) <= MaxMethods
        /\ IsMethodTable(tb.manager)
        /\ IsMethodTable(tb.model) }

\* The orders in which a range over the map may yield its entries.
Orders(S) ==
    { o \in [1..Cardinality(S) -> S] : \A i, j \in 1..Cardinality(S) : i # j => o[i] # o[j] }

(***************************************************************************)
(* swagger-gen: swaggerGen.generateCode, one statement per step.           *)
(***************************************************************************)
ManagerType == "SGuestManager"

ModelType == "SGuest"

\* typeParser.getMethods
getMethods(order, funcPreKeyword, model, preF) ==
    getTypeMethods(order, funcPreKeyword, pSingular, pPlural, model, preF)

createMs(order) == getMethods(order, Create, ManagerType, "createM")

createM(order) == getMethod(createMs(order))

listMs(order) == getMethods(order, List, ManagerType, "listM")

listM(order) == getMethod(listMs(order))

getMs(order) == getMethods(order, Get, ModelType, "getM")

getMOf(order) == getMethod(getMs(order))

updateMs(order) == getMethods(order, Update, ModelType, "updateM")

updateM(order) == getMethod(updateMs(order))

deleteMs(order) == getMethods(order, Delete, ModelType, "deleteM")

deleteM(order) == getMethod(deleteMs(order))

performActionM(order) == getMethods(order, Perform, ModelType, "performActionM")

getSpecM(order) == getMethods(order, GetSpec, ModelType, "getSpecM")

InitSwagger ==
    /\ \E tb \in MethodTables :
          /\ managerMethods = tb.manager
          /\ modelMethods = tb.model
    /\ \E kw \in KeywordUniverse :
          /\ pSingular = kw[1]
          /\ pPlural = kw[2]
    /\ pc = "generateGet"
    /\ getM = <<>>
    /\ iter = <<>>
    /\ sel = <<>>
    /\ picked = <<>>
    /\ emitted = <<>>
    /\ run = 1
    /\ firstRun = <<>>
    /\ ApiGenIdle
    /\ CollectIdle
    /\ RegistryIdle
    /\ FilterIdle

\* One statement of generateCode: the range took `order`, getTypeMethods
\* returned ms, getMethod returned m, and `blocks` were written.
Statement(from, to, order, ms, m, blocks) ==
    /\ pc = from
    /\ pc' = to
    /\ iter' = order
    /\ sel' = ms
    /\ picked' = m
    /\ emitted' = emitted \o blocks
    /\ UNCHANGED <<managerMethods, modelMethods, pSingular, pPlural, run, firstRun, apiVars, colVars, regVars, fltVars>>

GenerateGet ==
    \E order \in Orders(modelMethods) :
        /\ Statement("generateGet", "generateCreate", order, getMs(order), getMOf(order),
                     generateGet(getMOf(order)))
        /\ getM' = getMOf(order)

GenerateCreate ==
    \E order \in Orders(managerMethods) :
        /\ Statement("generateCreate", "generateList", order, createMs(order), createM(order),
                     generateCreate(createM(order), getM))
        /\ UNCHANGED getM

GenerateList ==
    \E order \in Orders(managerMethods) :
        /\ Statement("generateList", "generateUpdate", order, listMs(order), listM(order),
                     generateList(listM(order), getM))
        /\ UNCHANGED getM

GenerateUpdate ==
    \E order \in Orders(modelMethods) :
        /\ Statement("generateUpdate", "generateDelete", order, updateMs(order), updateM(order),
                     generateUpdate(updateM(order), getM))
        /\ UNCHANGED getM

GenerateDelete ==
    \E order \in Orders(modelMethods) :
        /\ Statement("generateDelete", "generateGetSpec", order, deleteMs(order), deleteM(order),
                     generateDelete(deleteM(order), getM))
        /\ UNCHANGED getM

GenerateGetSpec ==
    \E order \in Orders(modelMethods) :
        /\ Statement("generateGetSpec", "generatePerformAction", order, getSpecM(order), <<>>,
                     applyGenerateGetSpec(getSpecM(order)))
        /\ UNCHANGED getM

GeneratePerformAction ==
    \E order \in Orders(modelMethods) :
        /\ Statement("generatePerformAction", "done", order, performActionM(order), <<>>,
                     applyGeneratePerformAction(performActionM(order)))
        /\ UNCHANGED getM

\* The generator is run again on the same input.
Rerun ==
    /\ pc = "done"
    /\ run = 1
    /\ run' = 2
    /\ firstRun' = emitted
    /\ emitted' = <<>>
    /\ pc' = "generateGet"
    /\ getM' = <<>>
    /\ iter' = <<>>
    /\ sel' = <<>>
    /\ picked' = <<>>
    /\ UNCHANGED <<managerMethods, modelMethods, pSingular, pPlural, apiVars, colVars, regVars, fltVars>>

NextSwagger ==
    \/ GenerateGet
    \/ GenerateCreate
    \/ GenerateList
    \/ GenerateUpdate
    \/ GenerateDelete
    \/ GenerateGetSpec
    \/ GeneratePerformAction

SpecSwagger == InitSwagger /\ [][NextSwagger]_vars

NextSwaggerRerun ==
    \/ NextSwagger
    \/ Rerun

SpecSwaggerRerun == InitSwagger /\ [][NextSwaggerRerun]_vars

(***************************************************************************)
(* swagger-gen: the claims about the matcher.                              *)
(***************************************************************************)
\* The entry of a method table carries the swagger-gen-ignore annotation.
Ignored(f) ==
    \E i \in 1..Len(f.comments) :
        f.comments[i].marker /\ f.comments[i].key = "onecloud:swagger-gen-ignore"

\* The convention whose getMethod(s) call the last step made: its keyword,
\* the table it inspected and its arity template.
Convention(kw, table, nParams, nResults) ==
    [kw |-> kw, table |-> table, nParams |-> nParams, nResults |-> nResults]

SingleDone ==
    {"generateCreate", "generateList", "generateUpdate", "generateDelete", "generateGetSpec"}

MultiDone == {"generatePerformAction", "done"}

LastConvention ==
    CASE pc = "generateCreate" -> Convention(Get, modelMethods, {3, 4}, 2)
      [] pc = "generateList" -> Convention(Create, managerMethods, {5}, 2)
      [] pc = "generateUpdate" -> Convention(List, managerMethods, {4}, 2)
      [] pc = "generateDelete" -> Convention(Update, modelMethods, {4}, 2)
      [] pc = "generateGetSpec" -> Convention(Delete, modelMethods, {4}, 1)
      [] pc = "generatePerformAction" -> Convention(GetSpec, modelMethods, {3}, 2)
      [] pc = "done" -> Convention(Perform, modelMethods, {4}, 2)

FitsTemplate(f, c) ==
    /\ HasPrefix(f.name, c.kw)
    /\ Len(f.params) \in c.nParams
    /\ Len(f.results) = c.nResults

Matches(f, c) == FitsTemplate(f, c) /\ ~Ignored(f)

CreateFiveTwo(f) == HasPrefix(f.name, Create) /\ Len(f.params) = 5 /\ Len(f.results) = 2

PickedIsCreateFiveTwo == picked # <<>> => CreateFiveTwo(picked[1].method)

\* C4 as stated: whenever the manager type has a method with the Create
\* prefix, 5 parameters and 2 results, createM returns a method; and the
\* method createM returns never has another parameter or result count.
C4_Original ==
    pc = "generateList" =>
        /\ (\E f \in managerMethods : CreateFiveTwo(f)) => picked # <<>>
        /\ PickedIsCreateFiveTwo

\* C4: whenever the manager type has a method with the Create prefix, exactly
\* 5 parameters and 2 results that does not carry the swagger-gen-ignore
\* annotation, createM returns a method; the method createM returns always
\* has the Create prefix, 5 parameters and 2 results, never 4 or 6 parameters
\* or another result count.
C4_CreateM ==
    pc = "generateList" =>
        /\ (\E f \in managerMethods : CreateFiveTwo(f) /\ ~Ignored(f)) => picked # <<>>
        /\ PickedIsCreateFiveTwo

C4_Witness ==
    /\ pc = "generateList"
    /\ picked # <<>>
    /\ \E f \in managerMethods : HasPrefix(f.name, Create) /\ Len(f.params) = 6
    /\ Len(iter) = 2
    /\ Len(iter[1].params) = 6

\* C8: a method carrying the swagger-gen-ignore annotation is never among the
\* methods getTypeMethods returns for any convention, never the method
\* getMethod picks, and no emitted route is built from such a method.
C8_IgnoredNeverReturned ==
    /\ \A i \in 1..Len(sel) : ~Ignored(sel[i].method)
    /\ \A i \in 1..Len(picked) : ~Ignored(picked[i].method)
    /\ \A i \in 1..Len(getM) : ~Ignored(getM[i].method)
    /\ \A k \in 1..Len(emitted) : ~Ignored(emitted[k].method.method)

C8_Witness ==
    /\ pc = "done"
    /\ Len(sel) = 1
    /\ Len(emitted) = 1
    /\ \E f \in modelMethods : Ignored(f) /\ FitsTemplate(f, LastConvention)

\* C10: after the getMethod call of a single-result convention, the result is
\* nil exactly when no method of the inspected table that lacks the ignore
\* annotation fits the prefix and the arity template; otherwise it is the
\* first such method in the order the table was iterated.
C10_GetMethod ==
    pc \in SingleDone =>
        LET c == LastConvention
        IN  /\ (picked = <<>>) <=> ~(\E f \in c.table : Matches(f, c))
            /\ picked # <<>> =>
                  /\ Matches(picked[1].method, c)
                  /\ picked[1].name = picked[1].method.name
                  /\ \E i \in 1..Len(iter) :
                        /\ iter[i] = picked[1].method
                        /\ \A j \in 1..(i - 1) : ~Matches(iter[j], c)

C10_Witness ==
    /\ pc = "generateCreate"
    /\ Len(iter) = 2
    /\ Matches(iter[1], LastConvention)
    /\ Matches(iter[2], LastConvention)
    /\ picked = <<NewMethod(ModelType, iter[1].name, iter[1], pSingular, pPlural)>>

\* The items of a block that open a route, a parameter and a response.
RouteHeads(b) == {i \in 1..Len(b.text) : b.text[i].text[1] = "// swagger:route "}

ParameterHeads(b) ==
    {i \in 1..Len(b.text) :
        Len(b.text[i].text) > 1 /\ b.text[i].text[2] = "swagger:parameters "}

ResponseHeads(b) == {i \in 1..Len(b.text) : b.text[i].text[1] = "// swagger:response "}

OneRouteParameterResponse(b) ==
    /\ Cardinality(RouteHeads(b)) = 1
    /\ Cardinality(ParameterHeads(b)) = 1
    /\ Cardinality(ResponseHeads(b)) = 1

FailsValidity(f) == f.results[1] = "JSONObject"

\* C9: after the getSpecM (resp. performActionM) step, the methods returned
\* are exactly the methods of the model type without the ignore annotation
\* that have the prefix and 3 (resp. 4) parameters and 2 results, each once;
\* and the step wrote exactly one block (route, parameter, response) per
\* returned method, in order, also for a method whose output type is not a
\* struct pointer.
C9_MultiResult ==
    pc \in MultiDone =>
        LET c == LastConvention
            by == IF pc = "done" THEN "generatePerformAction" ELSE "generateGetSpec"
            matching == {f \in modelMethods : Matches(f, c)}
            n == Len(sel)
            base == Len(emitted) - n
        IN  /\ {sel[i].method : i \in 1..n} = matching
            /\ n = Cardinality(matching)
            /\ \A i \in 1..n : sel[i].name = sel[i].method.name
            /\ base >= 0
            /\ \A k \in 1..base : emitted[k].by # by
            /\ \A i \in 1..n :
                  /\ emitted[base + i].by = by
                  /\ emitted[base + i].method = sel[i]
                  /\ OneRouteParameterResponse(emitted[base + i])

C9_Witness ==
    /\ pc = "done"
    /\ Len(sel) = 2
    /\ Len(emitted) = 2
    /\ \E i \in 1..Len(sel) : FailsValidity(sel[i].method)

(***************************************************************************)
(* swagger-gen: the claims about routes and responses.                     *)
(***************************************************************************)
Lowered(s) == [i \in 1..Len(s) |-> toLower(s[i])]

Undashed(s) == SelectSeq(s, LAMBDA ch : ch # "-")

ItemPath == {"generateGet", "generateUpdate", "generateDelete"}

CollectionPath == {"generateCreate", "generateList"}

\* The part of a path after "/P/{id}/".
ActionOf(path) == SubSeq(path, Len(pPlural) + 3, Len(path))

ActionPathOf(b, prefix) ==
    /\ HasPrefix(b.route.path, <<"/">> \o pPlural \o <<"/{id}/">>)
    /\ Undashed(ActionOf(b.route.path))
          = Lowered(SubSeq(b.method.name, Len(prefix) + 1, Len(b.method.name)))
    /\ \A i \in 1..Len(ActionOf(b.route.path)) : ~isUpperChar(ActionOf(b.route.path)[i])

PerformReboot == <<"P", "e", "r", "f", "o", "r", "m", "R", "e", "b", "o", "o", "t">>

RebootOfServers(b) ==
    /\ b.by = "generatePerformAction"
    /\ b.method.name = PerformReboot
    /\ pPlural = <<"servers">>

\* C5: with P the plural keyword, a route written for Get, Update or Delete
\* has path /P/{id}; one written for Create or List has path /P; one written
\* for a Perform<X> or GetDetails<X> method has path /P/{id}/<x> with <x> the
\* lower-cased X; PerformReboot of servers has path /servers/{id}/reboot.
C5_RoutePaths ==
    \A k \in 1..Len(emitted) :
        LET b == emitted[k]
        IN  /\ b.by \in ItemPath => b.route.path = <<"/">> \o pPlural \o <<"/{id}">>
            /\ b.by \in CollectionPath => b.route.path = <<"/">> \o pPlural
            /\ b.by = "generatePerformAction" => ActionPathOf(b, Perform)
            /\ b.by = "generateGetSpec" => ActionPathOf(b, GetSpec)
            /\ RebootOfServers(b) =>
                  b.route.path = <<"/", "servers", "/{id}/", "r", "e", "b", "o", "o", "t">>
            /\ b.text[1].text =
                  <<"// swagger:route ", b.route.action, " ">> \o b.route.path \o <<" ">>
                  \o pSingular \o <<" ">> \o b.parameter.operationId \o <<"\n">>

C5_Witness ==
    /\ pc = "done"
    /\ Len(emitted) = 2
    /\ emitted[1].by = "generateGet"
    /\ RebootOfServers(emitted[2])

\* The Body wrapper of a list response, as response.bodyStruct writes it,
\* starts at item i of the text.
ListWrapperAt(t, i) ==
    /\ t[i].text = <<"Body struct {\n">>
    /\ t[i + 1].text[1] = "Output []$.type|raw$ "
    /\ t[i + 1].args # Nil
    /\ t[i + 2].text[1] = "Limit int "
    /\ t[i + 3].text[1] = "Total int "
    /\ t[i + 4].text[1] = "Offset int "
    /\ t[i + 5].text = <<"}\n">>

HasListWrapper(b) == \E i \in 1..(Len(b.text) - 5) : ListWrapperAt(b.text, i)

HasBodyWrapper(b) == \E i \in 1..Len(b.text) : b.text[i].text = <<"Body struct {\n">>

OutsideJsonutils(o) ==
    /\ o # Nil
    /\ TypeOf[o].kind = "Pointer"
    /\ ~Contains(TypeOf[TypeOf[o].elem].pkg, JsonutilsPackage)

\* C6 as stated: every list route's response has isList = true and its
\* emitted structure contains the Body wrapper with the Output array and
\* the Limit, Total and Offset fields, whatever the Get method's first
\* result type and the plural keyword are.
C6_Original ==
    \A k \in 1..Len(emitted) :
        emitted[k].by = "generateList" =>
            /\ emitted[k].response.isList
            /\ HasListWrapper(emitted[k])

\* C6: every list route's response has isList = true; its output type is
\* the Get method's first result or unset; the emitted structure contains
\* the Body wrapper with the Output array and the Limit, Total and Offset
\* fields exactly when the output type is set, points outside the jsonutils
\* package, and the plural keyword is not empty; a Body wrapper of a list
\* response is never emitted without those fields.
C6_ListResult ==
    \A k \in 1..Len(emitted) :
        emitted[k].by = "generateList" =>
            LET b == emitted[k]
                o == b.response.output
            IN  /\ b.response.isList
                /\ Len(getM) = 1
                /\ o \in {Nil, getM[1].method.results[1]}
                /\ HasListWrapper(b) <=> (OutsideJsonutils(o) /\ pPlural # <<>>)
                /\ HasBodyWrapper(b) => HasListWrapper(b)

C6_Witness ==
    /\ Len(emitted) = 2
    /\ emitted[2].by = "generateList"
    /\ HasListWrapper(emitted[2])
    /\ pPlural = <<"servers">>

(***************************************************************************)
(* swagger-gen: two runs on the same input.                                *)
(***************************************************************************)
\* What the snippet writer received: the text and arguments of every block.
OutputOf(blocks) == [k \in 1..Len(blocks) |-> blocks[k].text]

\* C1: when the generator has run twice on the same method tables and
\* keywords, the second run's output is identical to the first run's.
C1_Deterministic == (run = 2 /\ pc = "done") => OutputOf(emitted) = OutputOf(firstRun)

(***************************************************************************)
(* model-api-gen: apiGen.collectTypes and apiGen.addDependTypes.           *)
(* A type's String() is identified with its id in TypeOf.                  *)
(***************************************************************************)
\* getPrimitiveType return the primitive type of Map, Slice, Pointer or Chan
RECURSIVE getPrimitiveType(_)
getPrimitiveType(t) ==
    IF TypeOf[t].kind \notin {"Map", "Slice", "Pointer", "Chan"} THEN t
    ELSE getPrimitiveType(TypeOf[t].elem)

\* The member types of the structs declared outside the source package.
ExternalMembers ==
    [ SGeo |-> <<"string", "Details">>, Details |-> <<"Input">>, Input |-> <<"string">>,
      SModelBase |-> <<>> ]

\* t.Members, as the member types in declaration order.
MembersOf(t) ==
    IF t \in DOMAIN fields THEN fields[t]
    ELSE IF t \in DOMAIN ExternalMembers THEN ExternalMembers[t]
    ELSE <<>>

\* The member types the structs of the source package are made of.
FieldTypes ==
    {"SModelBase", "SGeo", "SDisk", "PtrSGuest", "PtrDetails", "PtrSModelBase", "TGeo", "string"}

FieldLists(n) == UNION { [1..k -> FieldTypes] : k \in 0..n }

\* The declarations of the two structs of the source package.
TypeGraphs ==
    UNION { { [SGuest |-> a, SDisk |-> b] :
                a \in [1..k -> FieldTypes], b \in FieldLists(MaxFields - k) } :
            k \in 0..MaxFields }

InitCollect ==
    /\ fields \in TypeGraphs
    /\ pkgTypes \in { <<"SGuest", "SDisk">>, <<"TStatus", "SGeo", "SDisk", "SGuest">> }
    /\ accepted \in { {"SGuest"}, {"SGuest", "SDisk", "SGeo"} }
    /\ modelTypes = {}
    /\ modelDependTypes = {}
    /\ cidx = 1
    /\ stack = <<>>
    /\ cstatus = "running"
    /\ ApiGenIdle
    /\ SwaggerIdle
    /\ RegistryIdle
    /\ FilterIdle

\* What one iteration of the range over t.Members does with a member of type
\* mt: the names inserted into out and into dependOut, and the type
\* addDependTypes is called on (Nil: no call).
Effect(toOut, toDependOut, call) == [out |-> toOut, dependOut |-> toDependOut, call |-> call]

\* A variant of the switch that does not walk a struct of the source package.
addDependTypesCaseFlat(mt) ==
    CASE TypeOf[mt].kind = "Struct" ->
            IF isModelBase(mt) THEN Effect({}, {}, Nil)
            ELSE IF ~inSourcePackage(mt) THEN Effect({}, {mt}, Nil)
            ELSE Effect({mt}, {}, Nil)
      [] TypeOf[mt].kind = "Pointer" ->
            LET et == TypeOf[mt].elem
            IN  IF ~inSourcePackage(et) THEN Effect({}, {et}, Nil)
                ELSE Effect({et}, {}, et)
      [] OTHER -> Effect({}, {}, Nil)

addDependTypesCase(mt) ==
    CASE TypeOf[mt].kind = "Struct" ->
            IF isModelBase(mt) THEN Effect({}, {}, Nil)
            ELSE IF ~inSourcePackage(mt) THEN Effect({}, {mt}, Nil)
            ELSE Effect({mt}, {}, mt)
      [] TypeOf[mt].kind = "Pointer" ->
            LET et == TypeOf[mt].elem
            IN  IF ~inSourcePackage(et) THEN Effect({}, {et}, Nil)
                ELSE Effect({et}, {}, et)
      [] TypeOf[mt].kind = "Alias" ->
            LET umt == getPrimitiveType(underlyingType(mt))
            IN  IF ~inSourcePackage(mt) /\ ~inSourcePackage(umt) THEN Effect({}, {mt}, Nil)
                ELSE Effect({mt, umt}, {}, umt)
      [] OTHER -> Effect({}, {}, Nil)

\* The entry of addDependTypes(t, out, dependOut): an alias is replaced by
\* the primitive type of its underlying type, which is inserted into out.
addDependTypesEntry(t) ==
    IF TypeOf[t].kind = "Alias"
    THEN LET ut == getPrimitiveType(underlyingType(t)) IN Effect({ut}, {}, ut)
    ELSE Effect({}, {}, t)

\* The caller at `callerStack` has inserted toOut and toDependOut and calls
\* addDependTypes(call, ...) unless call is Nil.  A call nested deeper than
\* MaxDepth has a type twice among its activations and exhausts the stack.
Continue(callerStack, toOut, toDependOut, call) ==
    /\ modelDependTypes' = modelDependTypes \cup toDependOut
    /\ IF call = Nil
       THEN /\ modelTypes' = modelTypes \cup toOut
            /\ stack' = callerStack
            /\ UNCHANGED cstatus
       ELSE /\ modelTypes' = modelTypes \cup toOut \cup addDependTypesEntry(call).out
            /\ IF Len(callerStack) >= MaxDepth
               THEN stack' = callerStack /\ cstatus' = "overflow"
               ELSE /\ stack' = Append(callerStack,
                                      [t |-> addDependTypesEntry(call).call, i |-> 1])
                    /\ UNCHANGED cstatus
    /\ UNCHANGED <<fields, pkgTypes, accepted, apiVars, swVars, regVars, fltVars>>

\* One iteration of the range over pkgTypes in collectTypes.
CollectTypesRange ==
    /\ cstatus = "running"
    /\ stack = <<>>
    /\ cidx <= Len(pkgTypes)
    /\ cidx' = cidx + 1
    /\ LET t == pkgTypes[cidx]
       IN  IF TypeOf[t].kind # "Struct" \/ ~inSourcePackage(t) \/ t \notin accepted
           THEN Continue(stack, {}, {}, Nil)
           ELSE Continue(stack, {t}, {}, t)

\* One iteration of the range over t.Members in addDependTypes.
AddDependTypesMember ==
    /\ cstatus = "running"
    /\ stack # <<>>
    /\ stack[Len(stack)].i <= Len(MembersOf(stack[Len(stack)].t))
    /\ LET top == stack[Len(stack)]
           e == addDependTypesCase(MembersOf(top.t)[top.i])
       IN  Continue([stack EXCEPT ![Len(stack)].i = @ + 1], e.out, e.dependOut, e.call)
    /\ UNCHANGED cidx

ReturnAddDependTypes ==
    /\ cstatus = "running"
    /\ stack # <<>>
    /\ stack[Len(stack)].i > Len(MembersOf(stack[Len(stack)].t))
    /\ stack' = SubSeq(stack, 1, Len(stack) - 1)
    /\ UNCHANGED <<fields, pkgTypes, accepted, modelTypes, modelDependTypes, cidx, cstatus,
                   apiVars, swVars, regVars, fltVars>>

ReturnCollectTypes ==
    /\ cstatus = "running"
    /\ stack = <<>>
    /\ cidx > Len(pkgTypes)
    /\ cstatus' = "done"
    /\ UNCHANGED <<fields, pkgTypes, accepted, modelTypes, modelDependTypes, cidx, stack,
                   apiVars, swVars, regVars, fltVars>>

NextCollect ==
    \/ CollectTypesRange
    \/ AddDependTypesMember
    \/ ReturnAddDependTypes
    \/ ReturnCollectTypes

SpecCollect == InitCollect /\ [][NextCollect]_vars

\* C11: when collectTypes has finished, no type name is both in modelTypes
\* and in modelDependTypes.
C11_Disjoint == cstatus = "done" => modelTypes \cap modelDependTypes = {}

\* C20: collectTypes never exhausts the stack: every call of addDependTypes
\* returns, whatever cycles the type graph has.
C20_Terminates == cstatus # "overflow"

DeclaredInSource(t) == TypeOf[t].pkg = SourcePackage

SentinelStruct(t) == TypeOf[t].kind = "Struct" /\ TypeOf[t].name = "SModelBase"

SourceStruct(t) == TypeOf[t].kind = "Struct" /\ ~SentinelStruct(t) /\ DeclaredInSource(t)

ExternalStruct(t) == TypeOf[t].kind = "Struct" /\ ~SentinelStruct(t) /\ ~DeclaredInSource(t)

ExternalPointer(t) == TypeOf[t].kind = "Pointer" /\ ~DeclaredInSource(TypeOf[t].elem)

\* A member type the range has passed is in the set it belongs to.
Handled(mt) ==
    /\ SourceStruct(mt) => mt \in modelTypes
    /\ ExternalStruct(mt) => mt \in modelDependTypes
    /\ ExternalPointer(mt) => TypeOf[mt].elem \in modelDependTypes

\* The accepted model types, and the structs of the source package reached
\* from a set of types through struct-kind members.
AcceptedTypes ==
    {pkgTypes[i] : i \in {j \in 1..Len(pkgTypes) :
        TypeOf[pkgTypes[j]].kind = "Struct" /\ DeclaredInSource(pkgTypes[j])
        /\ pkgTypes[j] \in accepted}}

RECURSIVE StructClosure(_)
StructClosure(S) ==
    LET more == S \cup {mt \in UNION {Range(MembersOf(t)) : t \in S} : SourceStruct(mt)}
    IN  IF more = S THEN S ELSE StructClosure(more)

\* The member whose iteration made the call that activation k + 1 runs.
CallingMember(k) == MembersOf(stack[k].t)[stack[k].i - 1]

MembersHandled ==
    /\ \A k \in 1..Len(stack) : \A j \in 1..(stack[k].i - 1) :
          Handled(MembersOf(stack[k].t)[j])
    /\ \A k \in 1..(Len(stack) - 1) :
          /\ ~ExternalStruct(CallingMember(k))
          /\ ~ExternalPointer(CallingMember(k))
          /\ ~SentinelStruct(CallingMember(k))
          /\ SourceStruct(CallingMember(k)) => stack[k + 1].t = CallingMember(k)
    /\ cstatus = "done" =>
          /\ AcceptedTypes \subseteq modelTypes
          /\ \A t \in StructClosure(AcceptedTypes) :
                \A j \in 1..Len(MembersOf(t)) : Handled(MembersOf(t)[j])

\* C12 as stated: the members are handled as described and the SModelBase
\* sentinel is in neither set.
C12_Original ==
    /\ MembersHandled
    /\ "SModelBase" \notin modelTypes \cup modelDependTypes

\* C12: every struct member declared in the source package other than the
\* sentinel is in the model set and its members are walked in turn; every
\* struct or pointer member whose (element) type is declared outside is in
\* the dependency set and is not walked; a struct member that is the
\* SModelBase sentinel adds it to neither set and is not walked, so that
\* SModelBase is in a set only when a walked type has a pointer member to it.
C12_AddDependTypes ==
    /\ MembersHandled
    /\ "SModelBase" \in modelTypes \cup modelDependTypes =>
          \E t \in modelTypes : "PtrSModelBase" \in Range(MembersOf(t))

C12_Witness ==
    /\ cstatus = "done"
    /\ fields["SGuest"] = <<"SModelBase", "SDisk">>
    /\ fields["SDisk"] = <<"SGeo">>
    /\ modelTypes = {"SGuest", "SDisk"}
    /\ modelDependTypes = {"SGeo"}

(***************************************************************************)
(* model-api-gen: the claims about pointer and interface members.          *)
(***************************************************************************)
\* The lines emitted for member i of the input.
LinesFor(i) == {k \in 1..Len(out) : out[k].m.name = members[i].name}

\* The run stopped at member i with a fatal error and emitted nothing for it.
AbortsAt(i) ==
    /\ idx <= i
    /\ LinesFor(i) = {}
    /\ (idx = i /\ status # "running") => status = "fatal"

PointerOutside(i) ==
    /\ TypeOf[members[i].type].kind = "Pointer"
    /\ TypeOf[TypeOf[members[i].type].elem].pkg # SourcePackage

PointerInside(i) ==
    /\ TypeOf[members[i].type].kind = "Pointer"
    /\ TypeOf[TypeOf[members[i].type].elem].pkg = SourcePackage

\* C13: a pointer member whose element type is declared outside the source
\* package stops the run with a fatal error and no field is emitted for it;
\* a pointer member whose element is in the source package is emitted with
\* the type expression "*<ElemName>".
C13_PointerFailFast ==
    \A i \in 1..Len(members) :
        /\ PointerOutside(i) => AbortsAt(i)
        /\ PointerInside(i) =>
              \A k \in LinesFor(i) :
                  out[k].m.mType = <<"*", TypeOf[TypeOf[members[i].type].elem].name>>

InterfaceMember(i) == TypeOf[members[i].type].kind = "Interface"

\* A named field with a json tag: the line starts with the field name and
\* carries a json tag.
NamedTaggedField(line, name) ==
    /\ ~line.m.embedded
    /\ Len(line.m.jsonTags) > 0
    /\ HasPrefix(line.text, name \o <<" ">>)
    /\ \E j \in 1..Len(line.text) : line.text[j] = "json:\""

\* C17: an embedded interface member stops the run with the fatal error of
\* doInterface and nothing is emitted for it; a non-embedded interface member
\* the loop has passed has exactly one line, a named field with a json tag,
\* and the run did not stop at it.
C17_Interface ==
    \A i \in 1..Len(members) :
        InterfaceMember(i) =>
            IF members[i].embedded
            THEN /\ AbortsAt(i)
                 /\ (idx = i /\ status = "fatal") => fatalAt = "doInterface"
            ELSE /\ status = "fatal" => idx # i
                 /\ idx > i =>
                       /\ Cardinality(LinesFor(i)) = 1
                       /\ \A k \in LinesFor(i) : NamedTaggedField(out[k], members[i].name)

C17_Witness ==
    /\ Len(members) = 3
    /\ InterfaceMember(1) /\ ~members[1].embedded
    /\ InterfaceMember(3) /\ members[3].embedded
    /\ status = "fatal"
    /\ fatalAt = "doInterface"
    /\ idx = 3
    /\ Len(out) = 2

(***************************************************************************)
(* swagger-gen: the claims about parameters, responses and routes.         *)
(***************************************************************************)
\* The query and body arguments each convention reads from its method.
ShapeArgs(b) ==
    CASE b.by = "generateCreate" -> {Params(b.method, 3), Params(b.method, 4)}
      [] b.by = "generateList" -> {Params(b.method, 3)}
      [] b.by = "generateGet" -> {Params(b.method, 2)}
      [] b.by = "generateUpdate" -> {Params(b.method, 2), Params(b.method, 3)}
      [] b.by = "generateDelete" -> {Params(b.method, 2), Params(b.method, 3)}
      [] b.by = "generateGetSpec" -> {Params(b.method, 2)}
      [] b.by = "generatePerformAction" -> {Params(b.method, 2), Params(b.method, 3)}

PointerToStruct(t) == TypeOf[t].kind = "Pointer" /\ TypeOf[TypeOf[t].elem].kind = "Struct"

\* The parameter of block b holds a diagnostic about type t and a line of
\* the route's description shows it.
Documented(b, t) ==
    \E i \in 1..Len(b.parameter.errorMsgs) :
        /\ Tail(b.parameter.errorMsgs[i]) = TypeString(t)
        /\ \E j \in 1..Len(b.route.description) :
              Tail(b.route.description[j]) = b.parameter.errorMsgs[i]

\* C14 as stated: for every convention, a query or body argument that is not
\* a pointer to a struct is recorded in errorMsgs and shown in the description.
C14_Original ==
    \A k \in 1..Len(emitted) :
        \A t \in ShapeArgs(emitted[k]) : ~PointerToStruct(t) => Documented(emitted[k], t)

\* The diagnostics the parameter factory of block b records.
ExpectedErrorMsgs(b) ==
    LET arg == CASE b.by = "generateCreate" -> Params(b.method, 4)
                 [] b.by = "generateList" -> Params(b.method, 3)
                 [] b.by = "generateUpdate" -> Params(b.method, 3)
                 [] OTHER -> Nil
        word == IF b.by = "generateList" THEN "unsupport query type "
                ELSE "unsupport body type "
    IN  IF arg = Nil \/ PointerToStruct(arg) THEN <<>>
        ELSE << <<word>> \o TypeString(arg) >>

\* C14: when the body argument of a Create or Update method, or the query
\* argument of a List method, is not a pointer to a struct, the factory
\* records one diagnostic in errorMsgs, the route is still generated and its
\* description shows the diagnostic; the other conventions, and the query
\* argument of Create and Update, record none.
C14_Diagnostics ==
    \A k \in 1..Len(emitted) :
        LET b == emitted[k]
            msgs == ExpectedErrorMsgs(b)
        IN  /\ b.parameter.errorMsgs = msgs
            /\ b.route.parameter = b.parameter
            /\ msgs # <<>> => b.route.description[1] = <<"input error: ">> \o msgs[1]

C14_Witness ==
    \E k \in 1..Len(emitted) :
        /\ emitted[k].by = "generateList"
        /\ Len(emitted[k].parameter.errorMsgs) = 1
        /\ Documented(emitted[k], Params(emitted[k].method, 3))

CommentLinesOf(b) ==
    [i \in 1..Len(b.method.method.comments) |-> LineText(b.method.method.comments[i])]

HasDiagnostic(b) == b.parameter.errorMsgs # <<>> \/ b.response.errorMsgs # <<>>

DiagnosticLines(b) ==
    (IF b.parameter.errorMsgs # <<>>
     THEN << <<"input error: ">> \o Join(b.parameter.errorMsgs, <<",">>) >> ELSE <<>>)
    \o (IF b.response.errorMsgs # <<>>
        THEN << <<"output error: ">> \o Join(b.response.errorMsgs, <<",">>) >> ELSE <<>>)

\* The diagnostics followed by the comment lines after the first.
PlainDescription(b) ==
    DiagnosticLines(b)
    \o (IF CommentLinesOf(b) = <<>> THEN <<>> ELSE Tail(CommentLinesOf(b)))

TagsAndSummary(b) ==
    /\ b.route.tags = <<b.method.resSingular>>
    /\ b.route.summary =
          IF HasDiagnostic(b) THEN <<"input or output error exists">>
          ELSE IF CommentLinesOf(b) = <<>> THEN <<>>
          ELSE CommentLinesOf(b)[1]

\* C15 as stated: tags, summary, and a description that is exactly the
\* diagnostics followed by the comment lines after the first.
C15_Original ==
    \A k \in 1..Len(emitted) :
        /\ TagsAndSummary(emitted[k])
        /\ emitted[k].route.description = PlainDescription(emitted[k])

\* C15: the tag list of every route is exactly the singular keyword; the
\* summary is the first comment line (empty without a comment) when neither
\* the parameter nor the response has a diagnostic and the fixed string
\* otherwise; the description is the diagnostics followed by the comment
\* lines after the first, except that when this is empty and the summary
\* is not, the description is the summary alone.
C15_NewRoute ==
    \A k \in 1..Len(emitted) :
        LET b == emitted[k]
        IN  /\ TagsAndSummary(b)
            /\ b.route.description =
                  IF PlainDescription(b) = <<>> /\ b.route.summary # <<>>
                  THEN <<b.route.summary>>
                  ELSE PlainDescription(b)

C15_Witness ==
    /\ \E k \in 1..Len(emitted) :
          /\ HasDiagnostic(emitted[k])
          /\ Len(CommentLinesOf(emitted[k])) = 2
          /\ Len(emitted[k].route.description) = 2
    /\ \E k \in 1..Len(emitted) :
          /\ ~HasDiagnostic(emitted[k])
          /\ Len(CommentLinesOf(emitted[k])) = 1
          /\ emitted[k].route.description = <<emitted[k].route.summary>>

\* The output a response takes from result 0 of method m.
OutputFrom(m) ==
    IF PointerToStruct(m.method.results[1]) THEN m.method.results[1] ELSE Nil

PairedSteps == {"generateCreate", "generateList", "generateUpdate", "generateDelete"}

\* C16 as stated: the output type of every route's response comes from
\* result 0 of the model's Get method.
C16_Original ==
    \A k \in 1..Len(emitted) :
        getM # <<>> => emitted[k].response.output = OutputFrom(getM[1])

\* C16: the response of every Create, List, Update and Delete route takes its
\* output type from result 0 of the model's Get method, not from the matched
\* method; the response of a Get, GetSpec or Perform route takes it from
\* result 0 of the matched method itself.
C16_PairedGet ==
    \A k \in 1..Len(emitted) :
        IF emitted[k].by \in PairedSteps
        THEN /\ getM # <<>>
             /\ emitted[k].response.output = OutputFrom(getM[1])
        ELSE emitted[k].response.output = OutputFrom(emitted[k].method)

C16_Witness ==
    \E k \in 1..Len(emitted) :
        /\ emitted[k].by = "generateCreate"
        /\ emitted[k].method.method.results[1] = "PtrInput"
        /\ emitted[k].response.output = "PtrDetails"

\* The statements of generateCode in program order, and the convention of each.
StepRank ==
    [generateGet |-> 1, generateCreate |-> 2, generateList |-> 3, generateUpdate |-> 4,
     generateDelete |-> 5, generateGetSpec |-> 6, generatePerformAction |-> 7, done |-> 8]

ConventionOf(step) ==
    CASE step = "generateGet" -> Convention(Get, modelMethods, {3, 4}, 2)
      [] step = "generateCreate" -> Convention(Create, managerMethods, {5}, 2)
      [] step = "generateList" -> Convention(List, managerMethods, {4}, 2)
      [] step = "generateUpdate" -> Convention(Update, modelMethods, {4}, 2)
      [] step = "generateDelete" -> Convention(Delete, modelMethods, {4}, 1)
      [] step = "generateGetSpec" -> Convention(GetSpec, modelMethods, {3}, 2)
      [] step = "generatePerformAction" -> Convention(Perform, modelMethods, {4}, 2)

Matching(step) == {f \in ConventionOf(step).table : Matches(f, ConventionOf(step))}

Ran(step) == StepRank[pc] > StepRank[step]

RoutesOf(step) == {k \in 1..Len(emitted) : emitted[k].by = step}

MaxRegistered == 3

ImageModelsPackage == <<"yunion.io", "x", "onecloud", "pkg", "image", "models">>

\* A db.IModelManager value: the name and package of its dynamic type and
\* whether the value is a pointer to it.
Man(name, pkg, ptr) == [name |-> name, pkg |-> pkg, ptr |-> ptr]

ManagerUniverse ==
    { Man("SGuestManager", SourcePackage, TRUE),
      Man("SDiskManager", SourcePackage, FALSE),
      Man("SQuotaManager", SourcePackage, TRUE),
      Man("SQuotaManager", ImageModelsPackage, TRUE),
      Man("SImageManager", ImageModelsPackage, TRUE) }

TypeNames == {"SGuestManager", "SDiskManager", "SQuotaManager", "SImageManager", "SGuest"}

LookupTypes == {Nil, "SGuestManager", "SGuest"}

\* The map after RegisterModelManager(man): the key is the Name() of
\* reflect.TypeOf(man), dereferenced when it is a pointer.
registerModelManager(gm, man) ==
    LET manTypeName == man.name
        m == IF gm = <<>> THEN <<>> ELSE gm[1]
        keys == (IF gm = <<>> THEN {} ELSE DOMAIN gm[1]) \cup {manTypeName}
    IN  << [k \in keys |-> IF k = manTypeName THEN man ELSE m[k]] >>

\* globalManagers[typeName]: a nil map and a missing key give nil.
GetModelManager(typeName) ==
    IF globalManagers = <<>> THEN <<>>
    ELSE IF typeName \in DOMAIN globalManagers[1] THEN <<globalManagers[1][typeName]>>
    ELSE <<>>

GetModelManagerByType(t) ==
    IF t = Nil THEN <<>> ELSE GetModelManager(TypeOf[t].name)

InitRegistry ==
    /\ globalManagers = <<>>
    /\ registered = <<>>
    /\ lookedUp = <<>>
    /\ ApiGenIdle
    /\ SwaggerIdle
    /\ CollectIdle
    /\ FilterIdle

Lookup(op, arg, result) ==
    lookedUp' = <<[op |-> op, arg |-> arg, result |-> result, before |-> globalManagers]>>

CallRegisterModelManager ==
    /\ Len(registered) < MaxRegistered
    /\ \E man \in ManagerUniverse :
          /\ globalManagers' = registerModelManager(globalManagers, man)
          /\ registered' = Append(registered, man)
    /\ lookedUp' = <<>>
    /\ UNCHANGED <<apiVars, swVars, colVars, fltVars>>

CallGlobalManagers ==
    /\ Lookup("GlobalManagers", Nil, globalManagers)
    /\ UNCHANGED <<globalManagers, registered, apiVars, swVars, colVars, fltVars>>

CallGetModelManager ==
    /\ \E typeName \in TypeNames :
          Lookup("GetModelManager", typeName, GetModelManager(typeName))
    /\ UNCHANGED <<globalManagers, registered, apiVars, swVars, colVars, fltVars>>

CallGetModelManagerByType ==
    /\ \E t \in LookupTypes :
          Lookup("GetModelManagerByType", t, GetModelManagerByType(t))
    /\ UNCHANGED <<globalManagers, registered, apiVars, swVars, colVars, fltVars>>

NextRegistry ==
    \/ CallRegisterModelManager
    \/ CallGlobalManagers
    \/ CallGetModelManager
    \/ CallGetModelManagerByType

SpecRegistry == InitRegistry /\ [][NextRegistry]_vars

RegisteredNames == {registered[i].name : i \in 1..Len(registered)}

\* C18: every manager passed to RegisterModelManager so far is what
\* GetModelManager returns for its type name, and what GetModelManagerByType
\* returns for a type of that name; a name never registered and a nil type
\* give nil; and a lookup leaves the registry as it found it.
C18_Retrievable ==
    /\ \A i \in 1..Len(registered) :
          /\ GetModelManager(registered[i].name) = <<registered[i]>>
          /\ \A t \in LookupTypes \ {Nil} :
                TypeOf[t].name = registered[i].name =>
                    GetModelManagerByType(t) = <<registered[i]>>
    /\ \A n \in TypeNames \ RegisteredNames : GetModelManager(n) = <<>>
    /\ GetModelManagerByType(Nil) = <<>>
    /\ lookedUp # <<>> => lookedUp[1].before = globalManagers

(***************************************************************************)
(* model-api-gen: the claim about the serialization key of a json tag.     *)
(***************************************************************************)
\* The snake-cased form of a field name.
SnakeCased(name) == CamelSplit(name, "_")

\* The text of the line that follows the opening of its json tag.
AfterJsonOpening(line) ==
    LET i == CHOOSE j \in 1..Len(line.text) : line.text[j] = "json:\""
    IN  SubSeq(line.text, i + 1, Len(line.text))

\* C21: in every emitted field that carries a json tag, the first element of
\* the tag is the snake-cased field name, and omitempty or any other option
\* comes after it, also for a TriState member whose name sorts after
\* "omitempty".
C21_KeyFirst ==
    \A k \in 1..Len(out) :
        Len(out[k].m.jsonTags) > 0 =>
            /\ out[k].m.jsonTags[1] = SnakeCased(out[k].m.name)
            /\ HasPrefix(AfterJsonOpening(out[k]), SnakeCased(out[k].m.name))

(***************************************************************************)
(* swagger-gen: the annotations of a function declaration (swagger.go).    *)
(***************************************************************************)
MaxIdx == 3

tagRouteMethod == "onecloud:swagger-gen-route-method"

tagRoutePath == "onecloud:swagger-gen-route-path"

tagRouteTag == "onecloud:swagger-gen-route-tag"

tagParamPath == "onecloud:swagger-gen-param-path"

tagParamQueryIdx == "onecloud:swagger-gen-param-query-index"

tagParamBodyIdx == "onecloud:swagger-gen-param-body-index"

tagRespIdx == "onecloud:swagger-gen-resp-index"

tagRespBodyKey == "onecloud:swagger-gen-resp-body-key"

\* A run-time panic: an index out of range or a nil dereference.
Panic == "panic"

Digits == <<"0", "1", "2", "3", "4", "5", "6", "7", "8", "9">>

RECURSIVE DecimalValue(_)
DecimalValue(ds) ==
    IF ds = <<>> THEN 0
    ELSE 10 * DecimalValue(SubSeq(ds, 1, Len(ds) - 1))
         + (CHOOSE d \in 0..9 : Digits[d + 1] = ds[Len(ds)])

\* strconv.Atoi: an optional sign followed by one or more decimal digits.
Atoi(s) ==
    LET signed == s # <<>> /\ s[1] \in {"+", "-"}
        ds == IF signed THEN Tail(s) ELSE s
        ok == ds # <<>> /\ \A i \in 1..Len(ds) : ds[i] \in Range(Digits)
    IN  [err |-> ~ok,
         idx |-> IF ~ok THEN 0
                 ELSE IF s[1] = "-" THEN 0 - DecimalValue(ds) ELSE DecimalValue(ds)]

\* fetchTagIdx: params[idx] panics when idx is negative.
fetchTagIdx(params, comments, tagName) ==
    LET vals == extractTagByName(comments, tagName)
    IN  IF Len(vals) = 0 THEN Nil
        ELSE IF Atoi(vals[1]).err THEN Nil
        ELSE IF Atoi(vals[1]).idx >= Len(params) THEN Nil
        ELSE IF Atoi(vals[1]).idx < 0 THEN Panic
        ELSE params[Atoi(vals[1]).idx + 1]

\* A pointer returned by an extract function: <<>> is nil; panic tells that
\* the call did not return.
Returned(val) == [panic |-> FALSE, val |-> val]

Panicked == [panic |-> TRUE, val |-> <<>>]

extractSwaggerRoute(comments) ==
    LET method == extractTagByName(comments, tagRouteMethod)
        path == extractTagByName(comments, tagRoutePath)
        tags == extractTagByName(comments, tagRouteTag)
    IN  IF Len(method) = 0 \/ Len(path) = 0 \/ Len(tags) = 0 THEN <<>>
        ELSE <<[Method |-> method[1], Path |-> path[1], Tags |-> tags]>>

extractSwaggerParam(ut, comments) ==
    LET paths == extractTagByName(comments, tagParamPath)
        query == fetchTagIdx(ut.params, comments, tagParamQueryIdx)
        body == fetchTagIdx(ut.params, comments, tagParamBodyIdx)
    IN  IF query = Panic \/ body = Panic THEN Panicked
        ELSE IF Len(paths) = 0 /\ query = Nil /\ body = Nil THEN Returned(<<>>)
        ELSE Returned(<<[Query |-> query, Body |-> body]>>)

extractSwaggerResponse(ut, comments) ==
    LET respType == fetchTagIdx(ut.results, comments, tagRespIdx)
        vals == extractTagByName(comments, tagRespBodyKey)
    IN  IF respType = Panic THEN Panicked
        ELSE IF respType = Nil THEN Returned(<<>>)
        ELSE Returned(<<[Output |-> respType,
                         BodyKey |-> IF Len(vals) > 0 THEN vals[1] ELSE <<>>]>>)

extractSwaggerConfig(ut, comments) ==
    LET route == extractSwaggerRoute(comments)
        param == extractSwaggerParam(ut, comments)
        resp == extractSwaggerResponse(ut, comments)
    IN  IF route = <<>> THEN Returned(<<>>)
        ELSE IF param.panic \/ resp.panic THEN Panicked
        ELSE Returned(<<[Route |-> route, Param |-> param.val, Response |-> resp.val]>>)

\* The calls of fetchTagIdx that extractSwaggerConfig makes, in order, up to
\* the first that panics.
FetchCall(params, comments, tagName) ==
    [params |-> params, vals |-> extractTagByName(comments, tagName),
     result |-> fetchTagIdx(params, comments, tagName)]

FetchCalls(ut, comments) ==
    LET q == FetchCall(ut.params, comments, tagParamQueryIdx)
        b == FetchCall(ut.params, comments, tagParamBodyIdx)
        r == FetchCall(ut.results, comments, tagRespIdx)
    IN  IF extractSwaggerRoute(comments) = <<>> THEN <<>>
        ELSE IF q.result = Panic THEN <<q>>
        ELSE IF b.result = Panic THEN <<q, b>>
        ELSE <<q, b, r>>

getFunctionHasSwaggerConfig(t) ==
    IF t.kind # "DeclarationOf" THEN Returned(<<>>)
    ELSE extractSwaggerConfig(t, t.second)

(***************************************************************************)
(* swagger-gen: swaggerGen.Filter and swaggerGen.GenerateType.             *)
(***************************************************************************)
getModelManager(t) ==
    IF t.name \in DOMAIN modelManagers THEN modelManagers[t.name] ELSE Nil

getModelManagerInstance(t) == GetModelManagerByType(getModelManager(t))

\* A variant of isModelManagerRegistered that only looks at the manager type.
isModelManagerRecorded(mt) == mt # Nil

isModelManagerRegistered(mt) ==
    IF mt = Nil THEN FALSE ELSE GetModelManagerByType(mt) # <<>>

\* swaggerGen.Filter(c, t): "accepted", "rejected", or Panic.
swaggerGenFilter(t) ==
    IF includeIgnoreTag(t) THEN "rejected"
    ELSE IF t.kind = "DeclarationOf" /\ getFunctionHasSwaggerConfig(t).panic THEN Panic
    ELSE IF t.kind = "DeclarationOf" /\ getFunctionHasSwaggerConfig(t).val # <<>>
    THEN "accepted"
    ELSE IF t.name \in swaggerModelTypes /\ isModelManagerRegistered(getModelManager(t))
    THEN "accepted"
    ELSE "rejected"

configNewParameter(c, t) ==
    [newParameter(<<>>, <<>>, privateName(<<Base(t.pkg)>>, <<t.name>>)) EXCEPT
        !.query = c.Query, !.body = c.Body]

configNewResponse(c, t) ==
    [output |-> c.Output, id |-> privateName(<<Base(t.pkg)>>, <<t.name>>) \o <<"Output">>,
     bodyKey |-> c.BodyKey, isList |-> FALSE, errorMsgs |-> <<>>]

configNewRoute(c, input, output) ==
    [action |-> c.Method[1], path |-> c.Path, parameter |-> input, tags |-> c.Tags,
     summary |-> <<>>, description |-> <<>>, response |-> {<<200, output>>}]

\* SwaggerConfig.generate dereferences a nil pointer: the receiver itself,
\* or the receiver of newParameter or of newResponse.
configGeneratePanics(c) ==
    IF c = <<>> THEN TRUE ELSE c[1].Param = <<>> \/ c[1].Response = <<>>

\* SwaggerConfig.generate: the block it writes.
configGenerate(c, t) ==
    LET param == configNewParameter(c[1].Param[1], t)
        resp == configNewResponse(c[1].Response[1], t)
        route == configNewRoute(c[1].Route[1], param, resp)
        commentLines == [i \in 1..Len(t.comments) |-> LineText(t.comments[i])]
        r1 == [route EXCEPT
                 !.summary = IF Len(commentLines) > 0 THEN commentLines[1] ELSE <<>>,
                 !.description = IF Len(commentLines) > 1 THEN Tail(commentLines) ELSE <<>>]
    IN  commenterDo("generateDeclarationCode", Nil, reviseDescription(r1), param, resp)

\* ---- the inputs ----
Itoa(n) == IF n < 0 THEN <<"-", Digits[1 - n]>> ELSE <<Digits[n + 1]>>

IdxValues == {Itoa(n) : n \in -1..MaxIdx} \cup {<<"x">>, <<"+", "1">>, <<>>}

IdxParts(tagName, values) == {<<>>} \cup {<<Tag(tagName, v)>> : v \in values}

RouteParts ==
    { <<Tag(tagRouteMethod, <<"GET">>), Tag(tagRoutePath, <<"/servers/{id}/vnc">>),
        Tag(tagRouteTag, <<"server">>)>>,
      <<Tag(tagRouteMethod, <<"GET">>), Tag(tagRoutePath, <<"/servers/{id}/vnc">>)>>,
      <<>> }

CommentParts ==
    { <<>>, <<Doc("Vnc information")>>, <<Doc("Vnc information"), Doc("of a running server")>>,
      <<Tag(tagIgnoreName, <<>>)>> }

Declaration(comments, second) ==
    [kind |-> "DeclarationOf", name |-> "GetServerVnc", pkg |-> SourcePackage,
     comments |-> comments, second |-> second,
     params |-> <<"Context", "PtrInput", "PtrInput">>,
     results |-> <<"PtrDetails", "error">>]

Declarations ==
    { Declaration(c, r \o q \o b \o o) :
        c \in CommentParts, r \in RouteParts,
        q \in IdxParts(tagParamQueryIdx, IdxValues),
        b \in IdxParts(tagParamBodyIdx, {Itoa(1), Itoa(0 - 1)}),
        o \in IdxParts(tagRespIdx, IdxValues) }

ModelStructs ==
    { [kind |-> "Struct", name |-> n, pkg |-> SourcePackage, comments |-> c,
       second |-> <<>>, params |-> <<>>, results |-> <<>>] :
        n \in {"SGuest", "SDisk"}, c \in {<<>>, <<Tag(tagIgnoreName, <<>>)>>} }

\* What CollectModelManager left in the generator and init() in the registry.
Collected ==
    { [types |-> {}, managers |-> [n \in {"SGuest", "SDisk"} |-> Nil]],
      [types |-> {"SGuest"}, managers |-> [SGuest |-> "SGuestManager", SDisk |-> Nil]],
      [types |-> {"SGuest", "SDisk"}, managers |-> [SGuest |-> "SGuestManager", SDisk |-> Nil]],
      [types |-> {"SGuest", "SDisk"},
       managers |-> [SGuest |-> "SGuestManager", SDisk |-> "SDiskManager"]] }

Registries ==
    { <<>>,
      registerModelManager(<<>>, Man("SGuestManager", SourcePackage, TRUE)),
      registerModelManager(registerModelManager(<<>>, Man("SGuestManager", SourcePackage, TRUE)),
                           Man("SDiskManager", SourcePackage, FALSE)) }

InitFilter ==
    /\ ftype \in Declarations \cup ModelStructs
    /\ \E c \in Collected :
          /\ swaggerModelTypes = c.types
          /\ modelManagers = c.managers
    /\ globalManagers \in Registries
    /\ registered = <<>>
    /\ lookedUp = <<>>
    /\ fpc = "filter"
    /\ fetched = <<>>
    /\ fout = <<>>
    /\ ApiGenIdle
    /\ SwaggerIdle
    /\ CollectIdle

Filter ==
    /\ fpc = "filter"
    /\ fpc' = swaggerGenFilter(ftype)
    /\ fetched' = IF ftype.kind = "DeclarationOf" /\ ~includeIgnoreTag(ftype)
                  THEN FetchCalls(ftype, ftype.second) ELSE <<>>
    /\ UNCHANGED <<ftype, swaggerModelTypes, modelManagers, fout, apiVars, swVars, colVars, regVars>>

\* getManagerKeywords(manIns) calls a method of a nil interface value.
generateCodePanics(t) == getModelManagerInstance(t) = <<>>

\* swaggerGen.GenerateType, for a type Filter accepted.
GenerateType ==
    /\ fpc = "accepted"
    /\ IF ftype.kind = "DeclarationOf"
       THEN LET config == getFunctionHasSwaggerConfig(ftype).val
            IN  IF configGeneratePanics(config)
                THEN fpc' = Panic /\ fout' = <<>>
                ELSE fpc' = "generated" /\ fout' = <<configGenerate(config, ftype)>>
       ELSE IF generateCodePanics(ftype)
            THEN fpc' = Panic /\ fout' = <<>>
            ELSE /\ fpc' = "generated"
                 /\ fout' = <<[by |-> "generateCode", manager |-> getModelManager(ftype),
                               manIns |-> getModelManagerInstance(ftype)]>>
    /\ UNCHANGED <<ftype, swaggerModelTypes, modelManagers, fetched, apiVars, swVars, colVars, regVars>>

NextFilter ==
    \/ Filter
    \/ GenerateType

SpecFilter == InitFilter /\ [][NextFilter]_vars

(***************************************************************************)
(* swagger-gen: the claims about declarations and about Filter.            *)
(***************************************************************************)
\* The index annotation of a recorded call of fetchTagIdx names a position
\* of params.
InRange(f) ==
    /\ Len(f.vals) > 0
    /\ ~Atoi(f.vals[1]).err
    /\ Atoi(f.vals[1]).idx >= 0
    /\ Atoi(f.vals[1]).idx < Len(f.params)

\* C23: every call of fetchTagIdx returns params[idx] exactly when the first
\* value of the index annotation parses as an integer idx with
\* 0 <= idx < len(params), and returns nil, without a panic, when the
\* annotation is missing, is not an integer, is too large or is negative.
C23_FetchTagIdx ==
    \A i \in 1..Len(fetched) :
        fetched[i].result =
            IF InRange(fetched[i])
            THEN fetched[i].params[Atoi(fetched[i].vals[1]).idx + 1]
            ELSE Nil

\* C22: for a function declaration that Filter accepts, GenerateType does not
\* panic, and what generateDeclarationCode writes is one block with a route,
\* a parameter and a response, also when extractSwaggerParam or
\* extractSwaggerResponse returned nil.
C22_DeclarationCompletes ==
    (ftype.kind = "DeclarationOf" /\ swaggerGenFilter(ftype) = "accepted") =>
        /\ fpc # Panic
        /\ fpc = "generated" =>
              /\ Len(fout) = 1
              /\ fout[1].by = "generateDeclarationCode"
              /\ OneRouteParameterResponse(fout[1])

\* The registry holds a manager instance under the name of manager type mt.
HasInstance(mt) ==
    /\ globalManagers # <<>>
    /\ TypeOf[mt].name \in DOMAIN globalManagers[1]

\* C24: Filter never accepts a type with the swagger-gen-ignore annotation;
\* a type that is not a declaration is accepted only when it is a collected
\* model type whose manager type is recorded and has an instance in the
\* registry; and generateCode never meets a nil manager instance.
C24_Filter ==
    /\ fpc \in {"accepted", "generated"} => ~Ignored(ftype)
    /\ (ftype.kind # "DeclarationOf" /\ fpc \in {"accepted", "generated", Panic}) =>
          /\ ftype.name \in swaggerModelTypes
          /\ modelManagers[ftype.name] # Nil
          /\ HasInstance(modelManagers[ftype.name])
    /\ ftype.kind # "DeclarationOf" => fpc # Panic
    /\ \A i \in 1..Len(fout) :
          fout[i].by = "generateCode" => Len(fout[i].manIns) = 1

C24_Witness ==
    /\ fpc = "generated"
    /\ ftype.kind = "Struct"
    /\ ftype.name = "SDisk"
    /\ Len(fout) = 1
    /\ fout[1].by = "generateCode"
    /\ fout[1].manIns = <<Man("SDiskManager", SourcePackage, FALSE)>>

====
